---- MODULE Spec2Model ----
(***************************************************************************)
(* A model of the mcc compiler driver and of the staged, memoized query    *)
(* pipeline it runs (parse -> lower -> generate_assembly -> render).       *)
(***************************************************************************)
EXTENDS Integers, Sequences, FiniteSets, TLC

(***************************************************************************)
(* Bounds of the model.                                                    *)
(***************************************************************************)
\* the number of top-level query invocations made on one session
MaxCalls == 3

(***************************************************************************)
(* Diagnostics.                                                            *)
(***************************************************************************)
\* codespan_reporting::diagnostic::Severity, ordered Help < Note < Warning < Error < Bug
SeverityRank(s) ==
    CASE s = "Help" -> 0
      [] s = "Note" -> 1
      [] s = "Warning" -> 2
      [] s = "Error" -> 3
      [] s = "Bug" -> 4

\* Diagnostic::bug() / Diagnostic::error() with a message, a code and one primary label
Diagnostic(severity, message, code, file, span, note) ==
    [severity |-> severity, message |-> message, code |-> code,
     file |-> file, span |-> span, label |-> note]

NoCode == "-"
unimplemented == "type_check::unimplemented"
unexpected_token == "parse::unexpected_token"
missing_token == "parse::missing_token"

\* the elements of a sequence, as a set
Range(seq) == { seq[i] : i \in 1..Len(seq) }

(***************************************************************************)
(* Parsed trees.  The parser (tree-sitter) is a black box: the model       *)
(* enumerates the trees it hands to the later stages.                      *)
(***************************************************************************)
Num(text, span) == [kind |-> "number_literal", text |-> text, span |-> span]
UnaryExpr(op, arg, span) ==
    [kind |-> "unary_expression", operator |-> op, argument |-> arg, span |-> span]
BinaryExpr(op, l, r, span) ==
    [kind |-> "binary_expression", operator |-> op, left |-> l, right |-> r, span |-> span]
Paren(child, span) == [kind |-> "parenthesized_expression", child |-> child, span |-> span]
\* any other node: identifier, call_expression, comma_expression, ERROR, or no node at all
Node(kind, span) == [kind |-> kind, span |-> span]
Absent == [kind |-> "absent", span |-> 0]

ReturnStmt(child, span) == [kind |-> "return_statement", child |-> child, span |-> span]
\* body is the sequence of the children of the compound statement
FunctionDef(declarator, ident, name, body, span) ==
    [kind |-> "function_definition", declarator |-> declarator, ident |-> ident,
     name |-> name, body |-> [kind |-> "compound_statement", children |-> body],
     span |-> span]

\* the node kinds of the grammar's `expression` supertype that occur in the model
ExpressionKinds ==
    {"number_literal", "unary_expression", "binary_expression",
     "parenthesized_expression", "identifier", "call_expression"}
\* the node kinds of the grammar's `statement` supertype that occur in the model
StatementKinds == {"return_statement", "expression_statement", "if_statement"}

as_expression(node) == node.kind \in ExpressionKinds
as_statement(node) == node.kind \in StatementKinds

(***************************************************************************)
(* str::parse::<i32>() on the text of a number literal, given as its       *)
(* characters.                                                             *)
(***************************************************************************)
I32Max == 2147483647

DigitValue(c) ==
    CASE c = "0" -> 0 [] c = "1" -> 1 [] c = "2" -> 2 [] c = "3" -> 3 [] c = "4" -> 4
      [] c = "5" -> 5 [] c = "6" -> 6 [] c = "7" -> 7 [] c = "8" -> 8 [] c = "9" -> 9
      [] OTHER -> -1

RECURSIVE ParseDigits(_, _, _)
ParseDigits(chars, i, acc) ==
    IF i > Len(chars) THEN [ok |-> TRUE, value |-> acc]
    ELSE LET d == DigitValue(chars[i]) IN
         IF d < 0 THEN [ok |-> FALSE, value |-> 0]
         ELSE IF acc > (I32Max - d) \div 10 THEN [ok |-> FALSE, value |-> 0]
         ELSE ParseDigits(chars, i + 1, acc * 10 + d)

ParseI32(chars) ==
    IF Len(chars) = 0 THEN [ok |-> FALSE, value |-> 0]
    ELSE IF chars[1] = "+" THEN
        (IF Len(chars) = 1 THEN [ok |-> FALSE, value |-> 0] ELSE ParseDigits(chars, 2, 0))
    ELSE ParseDigits(chars, 1, 0)

(***************************************************************************)
(* Three address code.                                                     *)
(***************************************************************************)
NoVal == [kind |-> "None"]
Constant(c) == [kind |-> "Constant", value |-> c]
Anonymous(i) == [kind |-> "Anonymous", id |-> i]
Var(v) == [kind |-> "Var", var |-> v]

(***************************************************************************)
(* Lowering: FunctionContext and its methods.  A context carries the       *)
(* instructions pushed so far, the counter, the diagnostics accumulated    *)
(* into the active query, and whether the body has panicked.               *)
(***************************************************************************)
FunctionContextNewShared(db, file) ==
    [file |-> file, instructions |-> <<>>,
     next_anonymous |-> Cardinality(DOMAIN db.memo),
     diags |-> <<>>, panicked |-> FALSE]

FunctionContextNew(db, file) ==
    [file |-> file, instructions |-> <<>>, next_anonymous |-> 0,
     diags |-> <<>>, panicked |-> FALSE]

Push(ctx, instruction) == [ctx EXCEPT !.instructions = Append(@, instruction)]
Accumulate(ctx, diagnostic) == [ctx EXCEPT !.diags = Append(@, diagnostic)]
Panic(ctx) == [ctx EXCEPT !.panicked = TRUE]

temporary_reused(ctx) == [ctx |-> ctx, out |-> Anonymous(ctx.next_anonymous)]

temporary(ctx) ==
    [ctx |-> [ctx EXCEPT !.next_anonymous = @ + 1], out |-> Anonymous(ctx.next_anonymous)]

label_fixed(ctx) == [ctx |-> [ctx EXCEPT !.next_anonymous = @ + 1], out |-> "L"]

label(ctx) ==
    [ctx |-> [ctx EXCEPT !.next_anonymous = @ + 1], out |-> "L" \o ToString(ctx.next_anonymous)]

Res(ctx, val) == [ctx |-> ctx, val |-> val]
\* the callee returned None (the `?` operator) or is unwinding
Failed(r) == r.ctx.panicked \/ r.val.kind = "None"

lower_number_literal(ctx, literal) ==
    LET p == ParseI32(literal.text) IN
    IF p.ok THEN Res(ctx, Constant(p.value)) ELSE Res(Panic(ctx), NoVal)

lower_binary_operator(ctx, left, right, op) ==
    LET t == temporary(ctx)
        dst == Var(t.out)
    IN Res(Push(t.ctx, [kind |-> "Binary", op |-> op, left_src |-> left,
                        right_src |-> right, dst |-> dst]), dst)

lower_comparison(ctx, left, right, op) ==
    LET t == temporary(ctx)
        dst == Var(t.out)
    IN Res(Push(t.ctx, [kind |-> "Comparison", op |-> op, left_src |-> left,
                        right_src |-> right, dst |-> dst]), dst)

UnaryOperatorTokens == {"!", "+", "-", "~"}
UnaryOperatorOf(tok) ==
    CASE tok = "-" -> "Negate" [] tok = "~" -> "Complement" [] tok = "!" -> "Not"

\* the operator tokens a binary_expression node can carry
BinaryOperatorTokens ==
    {"!=", "%", "&", "&&", "*", "+", "-", "/", "<", "<<", "<=", "==", ">", ">=", ">>",
     "^", "|", "||"}
ArithmeticTokens == {"+", "-", "*", "/", "%", "&", "|", "<<", ">>"}
ComparisonTokens == {"==", "!=", "<", "<=", ">", ">="}
BinaryOperatorOf(tok) ==
    CASE tok = "+" -> "Add" [] tok = "-" -> "Sub" [] tok = "*" -> "Mul"
      [] tok = "/" -> "Div" [] tok = "%" -> "Mod" [] tok = "&" -> "And"
      [] tok = "|" -> "Or" [] tok = "<<" -> "LeftShift" [] tok = ">>" -> "RightShift"
ComparisonOperatorOf(tok) ==
    CASE tok = "==" -> "Equal" [] tok = "!=" -> "NotEqual" [] tok = "<" -> "LessThan"
      [] tok = "<=" -> "LessThanOrEqual" [] tok = ">" -> "GreaterThan"
      [] tok = ">=" -> "GreaterThanOrEqual"

RECURSIVE lower_expression(_, _)
RECURSIVE lower_unary_expression(_, _)
RECURSIVE lower_binary_expression(_, _)
RECURSIVE lower_logical_and(_, _, _)
RECURSIVE lower_logical_or(_, _, _)

lower_unary_expression(ctx, unary) ==
    IF ~as_expression(unary.argument) THEN Res(ctx, NoVal)
    ELSE LET a == lower_expression(ctx, unary.argument) IN
         IF Failed(a) THEN Res(a.ctx, NoVal)
         ELSE LET t == temporary(a.ctx)
                  dst == Var(t.out)
              IN IF unary.operator \notin UnaryOperatorTokens THEN Res(t.ctx, NoVal)
                 ELSE IF unary.operator = "+" THEN Res(t.ctx, a.val)
                 ELSE Res(Push(t.ctx, [kind |-> "Unary",
                                       op |-> UnaryOperatorOf(unary.operator),
                                       src |-> a.val, dst |-> dst]), dst)

lower_logical_and_eager(ctx, left, right) ==
    LET l == lower_expression(ctx, left) IN
    IF Failed(l) THEN Res(l.ctx, NoVal)
    ELSE LET r == lower_expression(l.ctx, right) IN
         IF Failed(r) THEN Res(r.ctx, NoVal)
         ELSE LET false_label == label(r.ctx)
                  end_label == label(false_label.ctx)
                  result == temporary(end_label.ctx)
                  right_bool == temporary(result.ctx)
                  c1 == Push(right_bool.ctx,
                             [kind |-> "JumpIfZero", condition |-> l.val,
                              target |-> false_label.out])
                  c2 == Push(c1, [kind |-> "Comparison", op |-> "NotEqual",
                                  left_src |-> Constant(0), right_src |-> r.val,
                                  dst |-> Var(right_bool.out)])
                  c3 == Push(c2, [kind |-> "Copy", src |-> Var(right_bool.out),
                                  dst |-> Var(result.out)])
                  c4 == Push(c3, [kind |-> "Jump", target |-> end_label.out])
                  c5 == Push(c4, [kind |-> "Label", name |-> false_label.out])
                  c6 == Push(c5, [kind |-> "Copy", src |-> Constant(0),
                                  dst |-> Var(result.out)])
                  c7 == Push(c6, [kind |-> "Label", name |-> end_label.out])
              IN Res(c7, Var(result.out))

lower_logical_and(ctx, left, right) ==
    LET l == lower_expression(ctx, left) IN
    IF Failed(l) THEN Res(l.ctx, NoVal)
    ELSE LET false_label == label(l.ctx)
             end_label == label(false_label.ctx)
             result == temporary(end_label.ctx)
             c1 == Push(result.ctx, [kind |-> "JumpIfZero", condition |-> l.val,
                                     target |-> false_label.out])
             r == lower_expression(c1, right)
         IN IF Failed(r) THEN Res(r.ctx, NoVal)
            ELSE LET right_bool == temporary(r.ctx)
                     c2 == Push(right_bool.ctx,
                                [kind |-> "Comparison", op |-> "NotEqual",
                                 left_src |-> Constant(0), right_src |-> r.val,
                                 dst |-> Var(right_bool.out)])
                     c3 == Push(c2, [kind |-> "Copy", src |-> Var(right_bool.out),
                                     dst |-> Var(result.out)])
                     c4 == Push(c3, [kind |-> "Jump", target |-> end_label.out])
                     c5 == Push(c4, [kind |-> "Label", name |-> false_label.out])
                     c6 == Push(c5, [kind |-> "Copy", src |-> Constant(0),
                                     dst |-> Var(result.out)])
                     c7 == Push(c6, [kind |-> "Label", name |-> end_label.out])
                 IN Res(c7, Var(result.out))

lower_logical_or(ctx, left, right) ==
    LET l == lower_expression(ctx, left) IN
    IF Failed(l) THEN Res(l.ctx, NoVal)
    ELSE LET true_label == label(l.ctx)
             end_label == label(true_label.ctx)
             result == temporary(end_label.ctx)
             c1 == Push(result.ctx, [kind |-> "JumpIfNotZero", condition |-> l.val,
                                     target |-> true_label.out])
             r == lower_expression(c1, right)
         IN IF Failed(r) THEN Res(r.ctx, NoVal)
            ELSE LET right_bool == temporary(r.ctx)
                     c2 == Push(right_bool.ctx,
                                [kind |-> "Comparison", op |-> "NotEqual",
                                 left_src |-> Constant(0), right_src |-> r.val,
                                 dst |-> Var(right_bool.out)])
                     c3 == Push(c2, [kind |-> "Copy", src |-> Var(right_bool.out),
                                     dst |-> Var(result.out)])
                     c4 == Push(c3, [kind |-> "Jump", target |-> end_label.out])
                     c5 == Push(c4, [kind |-> "Label", name |-> true_label.out])
                     c6 == Push(c5, [kind |-> "Copy", src |-> Constant(1),
                                     dst |-> Var(result.out)])
                     c7 == Push(c6, [kind |-> "Label", name |-> end_label.out])
                 IN Res(c7, Var(result.out))

lower_binary_expression(ctx, binary) ==
    IF ~as_expression(binary.left) THEN Res(ctx, NoVal)
    ELSE IF ~as_expression(binary.right) THEN Res(ctx, NoVal)
    ELSE IF binary.operator \notin BinaryOperatorTokens THEN Res(ctx, NoVal)
    ELSE IF binary.operator = "&&" THEN lower_logical_and(ctx, binary.left, binary.right)
    ELSE IF binary.operator = "||" THEN lower_logical_or(ctx, binary.left, binary.right)
    ELSE LET l == lower_expression(ctx, binary.left) IN
         IF Failed(l) THEN Res(l.ctx, NoVal)
         ELSE LET r == lower_expression(l.ctx, binary.right) IN
              IF Failed(r) THEN Res(r.ctx, NoVal)
              ELSE IF binary.operator \in ArithmeticTokens THEN
                  lower_binary_operator(r.ctx, l.val, r.val,
                                        BinaryOperatorOf(binary.operator))
              ELSE IF binary.operator \in ComparisonTokens THEN
                  lower_comparison(r.ctx, l.val, r.val,
                                   ComparisonOperatorOf(binary.operator))
              ELSE Res(Accumulate(r.ctx,
                           Diagnostic("Bug", "Binary operator not implemented",
                                      unimplemented, ctx.file, binary.span,
                                      binary.operator)), NoVal)

lower_expression(ctx, expr) ==
    CASE expr.kind = "number_literal" -> lower_number_literal(ctx, expr)
      [] expr.kind = "unary_expression" -> lower_unary_expression(ctx, expr)
      [] expr.kind = "binary_expression" -> lower_binary_expression(ctx, expr)
      [] expr.kind = "parenthesized_expression" ->
            IF expr.child.kind = "ERROR" THEN Res(ctx, NoVal)
            ELSE IF as_expression(expr.child) THEN lower_expression(ctx, expr.child)
            ELSE Res(Accumulate(ctx,
                         Diagnostic("Bug", "Unexpected item in parenthesized expression",
                                    unimplemented, ctx.file, expr.span, expr.kind)), NoVal)
      [] OTHER ->
            Res(Accumulate(ctx,
                    Diagnostic("Bug", "Expression not implemented",
                               unimplemented, ctx.file, expr.span, expr.kind)), NoVal)

lower_return_statement(ctx, r) ==
    IF as_expression(r.child) THEN
        LET e == lower_expression(ctx, r.child) IN
        IF Failed(e) THEN e.ctx
        ELSE Push(e.ctx, [kind |-> "Return", val |-> e.val])
    ELSE Panic(ctx)

lower_statement(ctx, statement) ==
    IF statement.kind = "return_statement" THEN lower_return_statement(ctx, statement)
    ELSE Accumulate(ctx, Diagnostic("Bug", "Statement not implemented", unimplemented,
                                    ctx.file, statement.span, statement.kind))

RECURSIVE lower_body(_, _, _)
lower_body(ctx, body, i) ==
    IF i > Len(body) \/ ctx.panicked THEN ctx
    ELSE IF as_statement(body[i]) THEN lower_body(lower_statement(ctx, body[i]), body, i + 1)
    ELSE lower_body(ctx, body, i + 1)

(***************************************************************************)
(* The source files of the model, each with the tree the parser builds     *)
(* for it and the nodes tree-sitter flags in it.                           *)
(***************************************************************************)
Span(start, length) == [start |-> start, length |-> length]

\* the tree of each source file
Trees ==
    <<
    \* int main(void) { return 2; }
    [span |-> Span(0, 28), flagged |-> <<>>, missing_return_type |-> <<>>,
     items |-> << FunctionDef("function_declarator", "identifier", "main",
                     << ReturnStmt(Num(<<"2">>, Span(24, 1)), Span(17, 9)) >>,
                     Span(0, 28)) >>],
    \* int main(void) { return 1 && 0; }
    [span |-> Span(0, 33), flagged |-> <<>>, missing_return_type |-> <<>>,
     items |-> << FunctionDef("function_declarator", "identifier", "main",
                     << ReturnStmt(BinaryExpr("&&", Num(<<"1">>, Span(24, 1)),
                                              Num(<<"0">>, Span(29, 1)), Span(24, 6)),
                                   Span(17, 14)) >>,
                     Span(0, 33)) >>],
    \* main(void) { return 0; }
    [span |-> Span(0, 24), flagged |-> <<>>, missing_return_type |-> << Span(0, 4) >>,
     items |-> << FunctionDef("parenthesized_declarator", "absent", "",
                     << ReturnStmt(Num(<<"0">>, Span(20, 1)), Span(13, 9)) >>,
                     Span(0, 24)) >>],
    \* int foo(void) { return 0; } int main(void) { return 0; }
    [span |-> Span(0, 56), flagged |-> <<>>, missing_return_type |-> <<>>,
     items |-> << FunctionDef("function_declarator", "identifier", "foo",
                     << ReturnStmt(Num(<<"0">>, Span(23, 1)), Span(16, 9)) >>,
                     Span(0, 27)),
                  FunctionDef("function_declarator", "identifier", "main",
                     << ReturnStmt(Num(<<"0">>, Span(52, 1)), Span(45, 9)) >>,
                     Span(28, 28)) >>],
    \* int main(void) { return; }
    [span |-> Span(0, 26), flagged |-> <<>>, missing_return_type |-> <<>>,
     items |-> << FunctionDef("function_declarator", "identifier", "main",
                     << ReturnStmt(Absent, Span(17, 7)) >>,
                     Span(0, 26)) >>],
    \* int x; int main(void) { return -x; }
    [span |-> Span(0, 36), flagged |-> <<>>, missing_return_type |-> <<>>,
     items |-> << Node("declaration", Span(0, 6)),
                  FunctionDef("function_declarator", "identifier", "main",
                     << ReturnStmt(UnaryExpr("-", Node("identifier", Span(32, 1)),
                                             Span(31, 2)), Span(24, 10)) >>,
                     Span(7, 29)) >>],
    \* int foo(void) { return 1; } int main(void) { return 0x10; }
    [span |-> Span(0, 59), flagged |-> <<>>, missing_return_type |-> <<>>,
     items |-> << FunctionDef("function_declarator", "identifier", "foo",
                     << ReturnStmt(Num(<<"1">>, Span(23, 1)), Span(16, 9)) >>,
                     Span(0, 27)),
                  FunctionDef("function_declarator", "identifier", "main",
                     << ReturnStmt(Num(<<"0", "x", "1", "0">>, Span(52, 4)),
                                   Span(45, 12)) >>,
                     Span(28, 31)) >>],
    \* int main(void) { return ~1 }      (the semicolon is missing)
    [span |-> Span(0, 28),
     flagged |-> << [how |-> "missing", parent |-> "return_statement", token |-> "",
                     span |-> Span(26, 0)] >>,
     missing_return_type |-> <<>>,
     items |-> << FunctionDef("function_declarator", "identifier", "main",
                     << ReturnStmt(UnaryExpr("~", Num(<<"1">>, Span(25, 1)), Span(24, 2)),
                                   Span(17, 9)) >>,
                     Span(0, 28)) >>],
    \* int main(void) { return 1; } int main(void) { return 2; }
    [span |-> Span(0, 57), flagged |-> <<>>, missing_return_type |-> <<>>,
     items |-> << FunctionDef("function_declarator", "identifier", "main",
                     << ReturnStmt(Num(<<"1">>, Span(24, 1)), Span(17, 9)) >>,
                     Span(0, 28)),
                  FunctionDef("function_declarator", "identifier", "main",
                     << ReturnStmt(Num(<<"2">>, Span(53, 1)), Span(46, 9)) >>,
                     Span(29, 28)) >>],
    \* int main(void) { }
    [span |-> Span(0, 18), flagged |-> <<>>, missing_return_type |-> <<>>,
     items |-> << FunctionDef("function_declarator", "identifier", "main",
                     << >>, Span(0, 18)) >>]
    >>
SourceFiles == 1..Len(Trees)

(***************************************************************************)
(* The incremental engine: a memo table keyed by (query, inputs).  Each    *)
(* entry keeps the result, the values the body accumulated itself and the  *)
(* sub-queries it called; execs counts the executions of each body.        *)
(***************************************************************************)
\* idx names a function of the file by its position among the items, or the
\* target of render_program by its position in Targets; it is 0 otherwise
Key(q, file, idx) == [q |-> q, file |-> file, idx |-> idx]

EmptyDb == [memo |-> <<>>, execs |-> <<>>]

MemoHit(db, k) == k \in DOMAIN db.memo

Executions(db, k) == IF k \in DOMAIN db.execs THEN db.execs[k] ELSE 0

CountExecution(db, k) ==
    [db EXCEPT !.execs = (k :> (Executions(db, k) + 1)) @@ db.execs]

Memoize(db, k, value, own, deps) ==
    [db EXCEPT !.memo = (k :> [value |-> value, own |-> own, deps |-> deps]) @@ db.memo]

\* what a query body hands back to the engine
Done(db, value, own, deps) ==
    [db |-> db, value |-> value, own |-> own, deps |-> deps, panicked |-> FALSE]
Unwound(db) ==
    [db |-> db, value |-> NoVal, own |-> <<>>, deps |-> <<>>, panicked |-> TRUE]

\* accumulated::<Diagnostics>: the values of the query and of its transitive sub-queries
RECURSIVE Accumulated(_, _)
RECURSIVE AccumulatedOfAll(_, _, _)
AccumulatedOfAll(db, deps, i) ==
    IF i > Len(deps) THEN <<>>
    ELSE Accumulated(db, deps[i]) \o AccumulatedOfAll(db, deps, i + 1)
Accumulated(db, k) ==
    db.memo[k].own \o AccumulatedOfAll(db, db.memo[k].deps, 1)

\* a call of a tracked function with key k on db: the memoized result, or
\* that of the body, r, which ran on CountExecution(db, k); a body that
\* panicked leaves no entry
Tracked(db, k, r) ==
    IF MemoHit(db, k) THEN Done(db, db.memo[k].value, <<>>, <<>>)
    ELSE IF r.panicked THEN Unwound(r.db)
    ELSE Done(Memoize(r.db, k, r.value, r.own, r.deps), r.value, <<>>, <<>>)

(***************************************************************************)
(* The parse query.                                                        *)
(***************************************************************************)
check_node(file, node) ==
    IF node.how = "missing" THEN
        Diagnostic("Error", <<"Expected a", node.parent>>, unexpected_token,
                   file, node.span, "error occurred here")
    ELSE
        Diagnostic("Error", <<"Expected a", node.parent, "but found", node.token>>, NoCode,
                   file, node.span, "error occurred here")

check_tree(file) ==
    [i \in 1..Len(Trees[file].flagged) |-> check_node(file, Trees[file].flagged[i])]

ensure_return_type(file) ==
    [i \in 1..Len(Trees[file].missing_return_type) |->
        Diagnostic("Error", "Expected a return type for function", missing_token,
                   file, Trees[file].missing_return_type[i], "error occurred here")]

parse(db, k) ==
    Done(db, [kind |-> "Ast", tree |-> k.file],
         check_tree(k.file) \o ensure_return_type(k.file), <<>>)

tracked_parse(db, file) ==
    Tracked(db, Key("parse", file, 0),
            parse(CountExecution(db, Key("parse", file, 0)), Key("parse", file, 0)))

(***************************************************************************)
(* The lower query and its sub-query lower_function.                       *)
(***************************************************************************)
\* the end of lower_function: ctx is the context after lower_body
lowered_function(db, k, ctx) ==
    IF ctx.panicked THEN Unwound(db)
    ELSE Done(db,
              [kind |-> "FunctionDefinition", name |-> Trees[k.file].items[k.idx].name,
               instructions |-> ctx.instructions,
               span |-> Trees[k.file].items[k.idx].span,
               file |-> k.file, idx |-> k.idx],
              ctx.diags, <<>>)

lower_function(db, k) ==
    IF Trees[k.file].items[k.idx].declarator # "function_declarator"
    THEN Done(db, NoVal, <<>>, <<>>)
    ELSE IF Trees[k.file].items[k.idx].ident # "identifier" THEN Done(db, NoVal, <<>>, <<>>)
    ELSE IF Trees[k.file].items[k.idx].body.kind = "absent" THEN Done(db, NoVal, <<>>, <<>>)
    ELSE lowered_function(db, k,
            lower_body(FunctionContextNew(db, k.file),
                       Trees[k.file].items[k.idx].body.children, 1))

tracked_lower_function(db, k) ==
    Tracked(db, k, lower_function(CountExecution(db, k), k))

\* `if let Some(f) = lower_function(db, f, file) { functions.push(f); }`: r is
\* what the call of the sub-query sub returned
lowered_child_untracked(acc, sub, r) ==
    IF r.panicked THEN [acc EXCEPT !.db = r.db, !.panicked = TRUE]
    ELSE [acc EXCEPT !.db = r.db,
                     !.functions = IF r.value.kind = "None" THEN @ ELSE Append(@, r.value)]

lowered_child(acc, sub, r) ==
    IF r.panicked THEN [acc EXCEPT !.db = r.db, !.panicked = TRUE]
    ELSE [acc EXCEPT !.db = r.db,
                     !.deps = Append(@, sub),
                     !.functions = IF r.value.kind = "None" THEN @ ELSE Append(@, r.value)]

\* the loop over the children of the translation unit
RECURSIVE lower_children(_, _, _)
lower_children(acc, file, i) ==
    IF i > Len(Trees[file].items) \/ acc.panicked THEN acc
    ELSE IF Trees[file].items[i].kind = "function_definition" THEN
        lower_children(
            lowered_child(acc, Key("lower_function", file, i),
                          tracked_lower_function(acc.db, Key("lower_function", file, i))),
            file, i + 1)
    ELSE lower_children(
            [acc EXCEPT !.own = Append(@,
                Diagnostic("Bug", "Translation unit item not implemented",
                           unimplemented, file, Trees[file].items[i].span,
                           Trees[file].items[i].kind))],
            file, i + 1)

\* the check that the unit is exactly one function named main
RECURSIVE only_main(_, _, _)
only_main(file, functions, i) ==
    IF i > Len(functions) THEN <<>>
    ELSE (IF functions[i].name = "main" THEN <<>>
          ELSE << Diagnostic("Error", "Only a main function is supported", NoCode,
                             file, functions[i].span, "error occurred here") >>)
         \o only_main(file, functions, i + 1)

check_functions(file, functions) ==
    IF Len(functions) = 0 THEN
        << Diagnostic("Error", "The program must contain a valid main function", NoCode,
                      file, Trees[file].span, "error occurred here") >>
    ELSE IF Len(functions) = 1 /\ functions[1].name = "main" THEN <<>>
    ELSE only_main(file, functions, 1)

\* the end of lower: acc is the state after the loop
lowered_program(k, acc) ==
    IF acc.panicked THEN Unwound(acc.db)
    ELSE Done(acc.db,
              [kind |-> "Program", functions |-> acc.functions, file |-> k.file],
              acc.own \o check_functions(k.file, acc.functions), acc.deps)

lower(db, k) ==
    lowered_program(k,
        lower_children([db |-> db, functions |-> <<>>, own |-> <<>>,
                        deps |-> <<>>, panicked |-> FALSE], k.file, 1))

tracked_lower(db, file) ==
    Tracked(db, Key("lower", file, 0),
            lower(CountExecution(db, Key("lower", file, 0)), Key("lower", file, 0)))

(***************************************************************************)
(* Code generation: selection and stack assignment (to_assembly), then     *)
(* the fix-up of illegal operand combinations (fix_up_instructions).       *)
(***************************************************************************)
Imm(c) == [kind |-> "Imm", value |-> c]
Register(r) == [kind |-> "Register", reg |-> r]
Stack(offset) == [kind |-> "Stack", offset |-> offset]

Mov(src, dst) == [kind |-> "Mov", src |-> src, dst |-> dst]

\* StackAllocator: the variables seen so far, in first-seen order
StackAllocatorDefault == <<>>

Position(variables, v) ==
    IF \E i \in 1..Len(variables) : variables[i] = v
    THEN (CHOOSE i \in 1..Len(variables) :
            variables[i] = v /\ \A j \in 1..(i - 1) : variables[j] # v) - 1
    ELSE -1

index_of_fresh(variables, v) ==
    [alloc |-> Append(variables, v), out |-> Len(variables)]

index_of(variables, v) ==
    IF Position(variables, v) >= 0
    THEN [alloc |-> variables, out |-> Position(variables, v)]
    ELSE [alloc |-> Append(variables, v), out |-> Len(variables)]

offset_for_unscaled(variables, v) ==
    LET r == index_of(variables, v) IN [alloc |-> r.alloc, out |-> r.out]

offset_for(variables, v) ==
    LET r == index_of(variables, v) IN [alloc |-> r.alloc, out |-> r.out * 4]

operand_for(variables, val) ==
    IF val.kind = "Constant" THEN [alloc |-> variables, out |-> Imm(val.value)]
    ELSE LET r == offset_for(variables, val.var) IN [alloc |-> r.alloc, out |-> Stack(r.out)]

unary_operator_to_asm_neg(op) == "Neg"

unary_operator_to_asm(op) ==
    CASE op = "Negate" -> "Neg" [] op = "Complement" -> "Complement" [] op = "Not" -> "Not"

\* one arm of the match in to_assembly: the allocator after it and what it pushes
select_instruction(variables, instruction) ==
    CASE instruction.kind = "Return" ->
            LET src == operand_for(variables, instruction.val) IN
            [alloc |-> src.alloc,
             out |-> << Mov(src.out, Register("AX")), [kind |-> "Ret"] >>]
      [] instruction.kind = "Unary" ->
            LET src == operand_for(variables, instruction.src)
                dst == operand_for(src.alloc, instruction.dst)
            IN [alloc |-> dst.alloc,
                out |-> << Mov(src.out, dst.out),
                           [kind |-> "Unary", op |-> unary_operator_to_asm(instruction.op),
                            operand |-> dst.out] >>]
      [] instruction.kind = "Binary" ->
            LET left_src == operand_for(variables, instruction.left_src)
                right_src == operand_for(left_src.alloc, instruction.right_src)
                dst == operand_for(right_src.alloc, instruction.dst)
            IN [alloc |-> dst.alloc,
                out |-> IF instruction.op = "Div" THEN
                            << Mov(left_src.out, Register("AX")), [kind |-> "Cdq"],
                               [kind |-> "Idiv", src |-> right_src.out],
                               Mov(Register("AX"), dst.out) >>
                        ELSE IF instruction.op = "Mod" THEN
                            << Mov(left_src.out, Register("AX")), [kind |-> "Cdq"],
                               [kind |-> "Idiv", src |-> right_src.out],
                               Mov(Register("DX"), dst.out) >>
                        ELSE
                            << Mov(left_src.out, Register("R10")),
                               [kind |-> "Binary", op |-> instruction.op,
                                src |-> right_src.out, dst |-> Register("R10")],
                               Mov(Register("R10"), dst.out) >>]
      [] instruction.kind = "Comparison" ->
            LET left_src == operand_for(variables, instruction.left_src)
                right_src == operand_for(left_src.alloc, instruction.right_src)
                dst == operand_for(right_src.alloc, instruction.dst)
            IN [alloc |-> dst.alloc,
                out |-> << [kind |-> "Comparison", op |-> instruction.op,
                            left |-> left_src.out, right |-> right_src.out,
                            dst |-> dst.out] >>]
      [] instruction.kind = "Copy" ->
            LET src == operand_for(variables, instruction.src)
                dst == operand_for(src.alloc, instruction.dst)
            IN [alloc |-> dst.alloc, out |-> << Mov(src.out, dst.out) >>]
      [] instruction.kind = "Jump" ->
            [alloc |-> variables, out |-> << [kind |-> "Jump", target |-> instruction.target] >>]
      [] instruction.kind = "Label" ->
            [alloc |-> variables, out |-> << [kind |-> "Label", name |-> instruction.name] >>]
      [] instruction.kind = "JumpIfZero" ->
            LET condition == operand_for(variables, instruction.condition) IN
            [alloc |-> condition.alloc,
             out |-> << [kind |-> "JumpIfZero", condition |-> condition.out,
                         target |-> instruction.target] >>]
      [] instruction.kind = "JumpIfNotZero" ->
            LET condition == operand_for(variables, instruction.condition) IN
            [alloc |-> condition.alloc,
             out |-> << [kind |-> "JumpIfNotZero", condition |-> condition.out,
                         target |-> instruction.target] >>]

RECURSIVE select_all(_, _, _, _)
select_all(variables, instructions, i, out) ==
    IF i > Len(instructions) THEN [alloc |-> variables, out |-> out]
    ELSE LET r == select_instruction(variables, instructions[i]) IN
         select_all(r.alloc, instructions, i + 1, out \o r.out)

\* function is a tacky::FunctionDefinition
to_assembly_always_allocates(function) ==
    LET r == select_all(StackAllocatorDefault, function.instructions, 1, <<>>)
    IN [kind |-> "AsmFunctionDefinition", name |-> function.name,
        instructions |-> << [kind |-> "AllocateStack", size |-> Len(r.alloc) * 4] >> \o r.out,
        span |-> function.span, file |-> function.file, idx |-> function.idx]

to_assembly(function) ==
    LET r == select_all(StackAllocatorDefault, function.instructions, 1, <<>>)
        stack_size_bytes == Len(r.alloc) * 4
    IN [kind |-> "AsmFunctionDefinition", name |-> function.name,
        instructions |-> IF stack_size_bytes > 0
                         THEN << [kind |-> "AllocateStack", size |-> stack_size_bytes] >> \o r.out
                         ELSE r.out,
        span |-> function.span, file |-> function.file, idx |-> function.idx]

fix_up_instruction_skipped(instruction) == << instruction >>

\* the immediate divisor moved to AX, the dividend, in place of R10
fix_up_instruction_through_ax(instruction) ==
    IF instruction.kind = "Idiv" /\ instruction.src.kind = "Imm" THEN
        << Mov(instruction.src, Register("AX")), [kind |-> "Idiv", src |-> Register("AX")] >>
    ELSE fix_up_instruction_skipped(instruction)

\* one arm of the match in fix_up_instructions
fix_up_instruction(instruction) ==
    IF instruction.kind = "Mov" /\ instruction.src.kind = "Stack"
                                /\ instruction.dst.kind = "Stack" THEN
        << Mov(instruction.src, Register("R10")), Mov(Register("R10"), instruction.dst) >>
    ELSE IF instruction.kind = "Idiv" /\ instruction.src.kind = "Imm" THEN
        << Mov(instruction.src, Register("R10")), [kind |-> "Idiv", src |-> Register("R10")] >>
    ELSE IF instruction.kind = "Comparison" /\ instruction.left.kind = "Imm"
                                            /\ instruction.right.kind = "Imm" THEN
        << Mov(instruction.left, Register("R10")),
           [instruction EXCEPT !.left = Register("R10")] >>
    ELSE IF instruction.kind = "Comparison" /\ instruction.left.kind = "Stack"
                                            /\ instruction.right.kind = "Imm" THEN
        << Mov(instruction.left, Register("R10")),
           [instruction EXCEPT !.left = Register("R10")] >>
    ELSE IF instruction.kind = "Comparison" /\ instruction.left.kind = "Imm"
                                            /\ instruction.right.kind = "Stack" THEN
        << Mov(instruction.right, Register("R10")),
           [instruction EXCEPT !.left = Register("R10"), !.right = instruction.left] >>
    ELSE << instruction >>

RECURSIVE fix_up_all(_, _)
fix_up_all(instructions, i) ==
    IF i > Len(instructions) THEN <<>>
    ELSE fix_up_instruction(instructions[i]) \o fix_up_all(instructions, i + 1)

\* function is an asm::FunctionDefinition
fix_up_instructions(function) ==
    [function EXCEPT !.instructions = fix_up_all(function.instructions, 1)]

(***************************************************************************)
(* Rendering: the assembly text, as the sequence of its lines.             *)
(***************************************************************************)
\* the operating systems of the target triples of the model
Targets == << "Linux", "Darwin" >>

render_register(reg) ==
    CASE reg = "AX" -> "%eax" [] reg = "DX" -> "%edx" [] reg = "R10" -> "%r10d"

render_operand(operand) ==
    CASE operand.kind = "Imm" -> "$" \o ToString(operand.value)
      [] operand.kind = "Register" -> render_register(operand.reg)
      [] operand.kind = "Stack" -> "-" \o ToString(operand.offset + 4) \o "(%rbp)"

unary_operator(op) == CASE op = "Neg" -> "negl" [] op = "Complement" -> "notl"

binary_operator(op) ==
    CASE op = "Add" -> "addl" [] op = "Sub" -> "subl" [] op = "Mul" -> "imull"
      [] op = "And" -> "andl" [] op = "Or" -> "orl"
      [] op = "LeftShift" -> "shll" [] op = "RightShift" -> "shrl"

set_condition(op) ==
    CASE op = "Equal" -> "e" [] op = "NotEqual" -> "ne" [] op = "LessThan" -> "l"
      [] op = "LessThanOrEqual" -> "le" [] op = "GreaterThan" -> "g"
      [] op = "GreaterThanOrEqual" -> "ge"

\* the test of a conditional jump's operand
render_test(condition) ==
    IF condition.kind = "Imm" THEN
        << "movl $" \o ToString(condition.value) \o ", %eax", "testl %eax, %eax" >>
    ELSE IF condition.kind = "Stack" THEN
        << "movl " \o render_operand(condition) \o ", %eax", "testl %eax, %eax" >>
    ELSE << "testl " \o render_operand(condition) \o ", " \o render_operand(condition) >>

render_instruction(instruction) ==
    CASE instruction.kind = "AllocateStack" ->
            << "subq $" \o ToString(instruction.size) \o ", %rsp" >>
      [] instruction.kind = "Mov" ->
            << "movl " \o render_operand(instruction.src) \o ", "
                       \o render_operand(instruction.dst) >>
      [] instruction.kind = "Unary" ->
            IF instruction.op = "Not" THEN
                << "cmpl $0, " \o render_operand(instruction.operand),
                   "sete %al",
                   "movb %al, " \o render_operand(instruction.operand) >>
            ELSE << unary_operator(instruction.op) \o " "
                        \o render_operand(instruction.operand) >>
      [] instruction.kind = "Ret" -> << "movq %rbp, %rsp", "popq %rbp", "ret" >>
      [] instruction.kind = "Binary" ->
            << binary_operator(instruction.op) \o " " \o render_operand(instruction.src)
                    \o ", " \o render_operand(instruction.dst) >>
      [] instruction.kind = "Comparison" ->
            LET both == instruction.left.kind = "Stack" /\ instruction.right.kind = "Stack"
                left_reg == IF both THEN Register("AX") ELSE instruction.left
            IN (IF both THEN << "movl " \o render_operand(instruction.left) \o ", %eax" >>
                ELSE <<>>)
               \o << "cmpl " \o render_operand(instruction.right) \o ", "
                             \o render_operand(left_reg),
                     "set" \o set_condition(instruction.op) \o " %al",
                     "movzbl %al, %eax",
                     "movl %eax, " \o render_operand(instruction.dst) >>
      [] instruction.kind = "Idiv" -> << "idivl " \o render_operand(instruction.src) >>
      [] instruction.kind = "Cdq" -> << "cdq" >>
      [] instruction.kind = "Label" -> << instruction.name \o ":" >>
      [] instruction.kind = "Jump" -> << "jmp " \o instruction.target >>
      [] instruction.kind = "JumpIfZero" ->
            render_test(instruction.condition) \o << "jz " \o instruction.target >>
      [] instruction.kind = "JumpIfNotZero" ->
            render_test(instruction.condition) \o << "jnz " \o instruction.target >>

\* the two spaces written before each instruction
Indent(lines) == << "  " \o lines[1] >> \o SubSeq(lines, 2, Len(lines))

RECURSIVE render_instructions(_, _)
render_instructions(instructions, i) ==
    IF i > Len(instructions) THEN <<>>
    ELSE Indent(render_instruction(instructions[i]))
         \o render_instructions(instructions, i + 1)

function_name(target, name) == IF target = "Darwin" THEN "_" \o name ELSE name

render_function(target, function) ==
    LET name == function_name(target, function.name) IN
    << ".globl " \o name, name \o ":", "pushq %rbp", "movq %rsp, %rbp" >>
    \o render_instructions(function.instructions, 1)

RECURSIVE render_functions(_, _, _)
render_functions(target, functions, i) ==
    IF i > Len(functions) THEN <<>>
    ELSE render_function(target, functions[i]) \o << "" >>
         \o render_functions(target, functions, i + 1)

\* program is an asm::Program
render_program(program, target) ==
    render_functions(target, program.functions, 1)
    \o (IF target = "Linux" THEN << ".section .note.GNU-stack, \"\", @progbits" >> ELSE <<>>)

(***************************************************************************)
(* The code generation queries and the render query.                       *)
(***************************************************************************)
tracked_to_assembly(db, k) ==
    Tracked(db, k,
            Done(CountExecution(db, k),
                 to_assembly(db.memo[Key("lower_function", k.file, k.idx)].value),
                 <<>>, <<>>))

tracked_fix_up_instructions(db, k) ==
    Tracked(db, k,
            Done(CountExecution(db, k),
                 fix_up_instructions(db.memo[Key("to_assembly", k.file, k.idx)].value),
                 <<>>, <<>>))

\* codegen::lower_function: to_assembly, then fix_up_instructions on its result
codegen_lowered_function(k, f) ==
    Done(f.db, f.value, <<>>,
         << Key("to_assembly", k.file, k.idx), Key("fix_up_instructions", k.file, k.idx) >>)

codegen_lower_function(db, k) ==
    codegen_lowered_function(k,
        tracked_fix_up_instructions(
            tracked_to_assembly(db, Key("to_assembly", k.file, k.idx)).db,
            Key("fix_up_instructions", k.file, k.idx)))

tracked_codegen_lower_function(db, k) ==
    Tracked(db, k, codegen_lower_function(CountExecution(db, k), k))

\* `functions.push(lower_function(db, function))`
generated_function(acc, sub, r) ==
    [acc EXCEPT !.db = r.db, !.deps = Append(@, sub), !.functions = Append(@, r.value)]

\* the loop over program.functions(db)
RECURSIVE generate_functions(_, _, _)
generate_functions(acc, functions, i) ==
    IF i > Len(functions) THEN acc
    ELSE generate_functions(
            generated_function(acc,
                Key("codegen::lower_function", functions[i].file, functions[i].idx),
                tracked_codegen_lower_function(acc.db,
                    Key("codegen::lower_function", functions[i].file, functions[i].idx))),
            functions, i + 1)

generated_program(k, acc) ==
    Done(acc.db, [kind |-> "AsmProgram", functions |-> acc.functions, file |-> k.file],
         <<>>, acc.deps)

generate_assembly(db, k) ==
    generated_program(k,
        generate_functions([db |-> db, functions |-> <<>>, deps |-> <<>>],
                           db.memo[Key("lower", k.file, 0)].value.functions, 1))

tracked_generate_assembly(db, file) ==
    Tracked(db, Key("generate_assembly", file, 0),
            generate_assembly(CountExecution(db, Key("generate_assembly", file, 0)),
                              Key("generate_assembly", file, 0)))

tracked_render_program(db, file, target) ==
    Tracked(db, Key("render_program", file, target),
            Done(CountExecution(db, Key("render_program", file, target)),
                 render_program(db.memo[Key("generate_assembly", file, 0)].value,
                                Targets[target]),
                 <<>>, <<>>))

(***************************************************************************)
(* The observers.  Callbacks is the trait's interface: each hook returns   *)
(* Continue or Break with a value of the observer's own type.              *)
(***************************************************************************)
Continue == [kind |-> "Continue", value |-> "()"]
Break(v) == [kind |-> "Break", value |-> v]

\* the --lex / --parse / --tacky / --codegen flags form one clap group: at most one is set
Stage(lex, parse_, tacky, codegen) ==
    [lex |-> lex, parse |-> parse_, tacky |-> tacky, codegen |-> codegen]
Stages ==
    { Stage(FALSE, FALSE, FALSE, FALSE), Stage(TRUE, FALSE, FALSE, FALSE),
      Stage(FALSE, TRUE, FALSE, FALSE), Stage(FALSE, FALSE, TRUE, FALSE),
      Stage(FALSE, FALSE, FALSE, TRUE) }

\* emit_ok: whether writing the diagnostics to stderr succeeded
emit_diagnostics(diags, emit_ok) == Len(diags) = 0 \/ emit_ok

handle_diags_strict(diags, emit_ok) ==
    IF ~emit_diagnostics(diags, emit_ok) THEN Break("Err(emit)")
    ELSE IF \E i \in 1..Len(diags) :
                SeverityRank(diags[i].severity) > SeverityRank("Error")
         THEN Break("Err(Compilation failed)")
    ELSE Continue

handle_diags(diags, emit_ok) ==
    IF ~emit_diagnostics(diags, emit_ok) THEN Break("Err(emit)")
    ELSE IF \E i \in 1..Len(diags) :
                SeverityRank(diags[i].severity) >= SeverityRank("Error")
         THEN Break("Err(Compilation failed)")
    ELSE Continue

\* DefaultCallbacks: cb is [stop_at, assembly_path]
after_parse(cb, diags, emit_ok) ==
    LET h == handle_diags(diags, emit_ok) IN
    IF h.kind = "Break" THEN h
    ELSE IF cb.stop_at.parse \/ cb.stop_at.lex THEN Break("Ok(())")
    ELSE Continue

after_lower(cb, diags, emit_ok) ==
    LET h == handle_diags(diags, emit_ok) IN
    IF h.kind = "Break" THEN h
    ELSE IF cb.stop_at.tacky THEN Break("Ok(())")
    ELSE Continue

after_codegen(cb, diags, emit_ok) ==
    LET h == handle_diags(diags, emit_ok) IN
    IF h.kind = "Break" THEN h
    ELSE IF cb.stop_at.codegen THEN Break("Ok(())")
    ELSE Continue

\* write_ok: whether writing the assembly to assembly_path succeeded
after_render_assembly(cb, diags, emit_ok, write_ok) ==
    LET h == handle_diags(diags, emit_ok) IN
    IF h.kind = "Break" THEN h
    ELSE IF cb.assembly_path /\ ~write_ok THEN Break("Err(write assembly)")
    ELSE Continue

\* whether after_render_assembly gets as far as writing the assembly file
writes_assembly(cb, diags, emit_ok) ==
    handle_diags(diags, emit_ok).kind = "Continue" /\ cb.assembly_path

after_compile(cb) == Continue

\* the values another implementation of Callbacks breaks with
CustomReturns == {Continue} \cup { Break(v) : v \in {"v1", "v2"} }

DefaultHook(name, cb, diags, emit_ok, write_ok) ==
    CASE name = "after_parse" -> after_parse(cb, diags, emit_ok)
      [] name = "after_lower" -> after_lower(cb, diags, emit_ok)
      [] name = "after_codegen" -> after_codegen(cb, diags, emit_ok)
      [] name = "after_render_assembly" -> after_render_assembly(cb, diags, emit_ok, write_ok)
      [] name = "after_compile" -> after_compile(cb)

(***************************************************************************)
(* The state.                                                              *)
(*   pc, cfg, db, temp, trace, outcome, exit: one run of the driver        *)
(*   hook: one call of a hook of the default observer                      *)
(*   sessions, ncalls, last: two sessions of the engine and the queries    *)
(*   invoked on them                                                       *)
(*   unit: one function, or one instruction, taken through the stages      *)
(*   and run on the machine                                                *)
(***************************************************************************)
VARIABLES pc, cfg, db, temp, trace, outcome, exit, hook, sessions, ncalls, last, unit

vars == << pc, cfg, db, temp, trace, outcome, exit, hook, sessions, ncalls, last, unit >>

NoCfg ==
    [input |-> 0, target |-> 0, observer |-> "none", mode |-> "none",
     cb |-> [stop_at |-> Stage(FALSE, FALSE, FALSE, FALSE), assembly_path |-> FALSE]]
NoOutcome == [kind |-> "None", value |-> ""]
NoHook == [name |-> "none"]
NoCall == [session |-> 0]
NoUnit == [kind |-> "none"]

Outcome(kind, value) == [kind |-> kind, value |-> value]

\* events of the trace of a run
QueryEv(name) == [ev |-> "query", name |-> name]
ToolEv(name, ok) == [ev |-> "tool", name |-> name, ok |-> ok]
WriteEv(path, ok) == [ev |-> "write", name |-> path, ok |-> ok]
HookEv(name, artifact, diags, ret) ==
    [ev |-> "hook", name |-> name, artifact |-> artifact, diags |-> diags, ret |-> ret]

Init ==
    /\ pc = "idle"
    /\ cfg = NoCfg
    /\ db = EmptyDb
    /\ temp = "none"
    /\ trace = <<>>
    /\ outcome = NoOutcome
    /\ exit = "none"
    /\ hook = NoHook
    /\ sessions = << EmptyDb, EmptyDb >>
    /\ ncalls = 0
    /\ last = NoCall
    /\ unit = NoUnit

(***************************************************************************)
(* The steps of run(cb, cfg).                                              *)
(***************************************************************************)
\* leaving run: the TempDir guard is dropped
ReturnKeepingTemp(o) ==
    /\ pc' = "returned"
    /\ outcome' = o
    /\ temp' = temp

Return(o) ==
    /\ pc' = "returned"
    /\ outcome' = o
    /\ temp' = IF temp = "live" THEN "released" ELSE temp

Goto(next_pc) ==
    /\ pc' = next_pc
    /\ UNCHANGED << outcome, temp >>

\* `match ... { Ok(x) => x, Err(e) => return Outcome::Err(e) }`
OrReturnErrIgnored(ok, error, next_pc) == Goto(next_pc)

OrReturnErr(ok, error, next_pc) ==
    IF ok THEN Goto(next_pc) ELSE Return(Outcome("Err", error))

\* `if let ControlFlow::Break(ret) = cb.after_x(..) { return Outcome::EarlyReturn(ret); }`
OnHookReturnIgnored(ret, next_pc) == Goto(next_pc)

OnHookReturn(ret, next_pc) ==
    IF ret.kind = "Break" THEN Return(Outcome("EarlyReturn", ret.value)) ELSE Goto(next_pc)

\* the call of a hook of cb, and what run does with its answer
CallHook(name, artifact, diags, next_pc) ==
    \E emit_ok \in BOOLEAN, write_ok \in BOOLEAN, custom \in CustomReturns :
        LET ret == IF cfg.observer = "default"
                   THEN DefaultHook(name, cfg.cb, diags, emit_ok, write_ok)
                   ELSE custom
            written == IF /\ cfg.observer = "default"
                          /\ name = "after_render_assembly"
                          /\ writes_assembly(cfg.cb, diags, emit_ok)
                       THEN << WriteEv("assembly_path", write_ok) >>
                       ELSE <<>>
        IN /\ trace' = trace \o written \o << HookEv(name, artifact, diags, ret) >>
           /\ OnHookReturn(ret, next_pc)

Cli_run ==
    /\ pc = "idle"
    /\ \E input \in SourceFiles, target \in 1..Len(Targets),
          stop_at \in Stages, keep_assembly \in BOOLEAN :
            cfg' = [input |-> input, target |-> target, observer |-> "default",
                    mode |-> "cli",
                    cb |-> [stop_at |-> stop_at, assembly_path |-> keep_assembly]]
    /\ pc' = "run"
    /\ UNCHANGED << db, temp, trace, outcome, exit >>

\* std::fs::read_to_string(&self.input)? fails
Cli_run_unreadable ==
    /\ pc = "idle"
    /\ pc' = "exited"
    /\ exit' = "Err"
    /\ UNCHANGED << cfg, db, temp, trace, outcome >>

\* run called by other code, with its own implementation of Callbacks
Library_run ==
    /\ pc = "idle"
    /\ \E input \in SourceFiles, target \in 1..Len(Targets) :
            cfg' = [NoCfg EXCEPT !.input = input, !.target = target,
                                 !.observer = "custom", !.mode = "library"]
    /\ pc' = "run"
    /\ UNCHANGED << db, temp, trace, outcome, exit >>

CreateTempDir ==
    /\ pc = "run"
    /\ \E ok \in BOOLEAN :
        IF ok THEN pc' = "preprocess" /\ temp' = "live" /\ outcome' = outcome
        ELSE Return(Outcome("Err", "failed to create temp dir"))
    /\ UNCHANGED << cfg, db, trace, exit >>

Preprocess ==
    /\ pc = "preprocess"
    /\ \E ok \in BOOLEAN :
        /\ trace' = Append(trace, ToolEv("preprocess", ok))
        /\ OrReturnErr(ok, "failed to preprocess", "write_preprocessed")
    /\ UNCHANGED << cfg, db, exit >>

WritePreprocessed ==
    /\ pc = "write_preprocessed"
    /\ \E ok \in BOOLEAN :
        /\ trace' = Append(trace, WriteEv("temp/preprocessed.c", ok))
        /\ OrReturnErr(ok, "io", "parse")
    /\ UNCHANGED << cfg, db, exit >>

Parse ==
    /\ pc = "parse"
    /\ trace' = Append(trace, QueryEv("parse"))
    /\ db' = tracked_parse(db, cfg.input).db
    /\ Goto("after_parse")
    /\ UNCHANGED << cfg, exit >>

AfterParse ==
    /\ pc = "after_parse"
    /\ LET k == Key("parse", cfg.input, 0) IN
       CallHook("after_parse", db.memo[k].value, Accumulated(db, k), "lower")
    /\ UNCHANGED << cfg, db, exit >>

\* r is what the call of lower returned; a panic unwinds through run
Lowered(r) ==
    /\ db' = r.db
    /\ IF r.panicked THEN Return(Outcome("Panic", "")) ELSE Goto("after_lower")

Lower ==
    /\ pc = "lower"
    /\ trace' = Append(trace, QueryEv("lower"))
    /\ Lowered(tracked_lower(db, cfg.input))
    /\ UNCHANGED << cfg, exit >>

AfterLower ==
    /\ pc = "after_lower"
    /\ LET k == Key("lower", cfg.input, 0) IN
       CallHook("after_lower", db.memo[k].value, Accumulated(db, k), "codegen")
    /\ UNCHANGED << cfg, db, exit >>

GenerateAssembly ==
    /\ pc = "codegen"
    /\ trace' = Append(trace, QueryEv("generate_assembly"))
    /\ db' = tracked_generate_assembly(db, cfg.input).db
    /\ Goto("after_codegen")
    /\ UNCHANGED << cfg, exit >>

AfterCodegen ==
    /\ pc = "after_codegen"
    /\ LET k == Key("generate_assembly", cfg.input, 0) IN
       CallHook("after_codegen", db.memo[k].value, Accumulated(db, k), "render")
    /\ UNCHANGED << cfg, db, exit >>

\* render_program writes into a String, which cannot fail
RenderProgram ==
    /\ pc = "render"
    /\ trace' = Append(trace, QueryEv("render_program"))
    /\ db' = tracked_render_program(db, cfg.input, cfg.target).db
    /\ OrReturnErr(TRUE, "fmt", "after_render")
    /\ UNCHANGED << cfg, exit >>

AfterRenderAssembly ==
    /\ pc = "after_render"
    /\ LET k == Key("render_program", cfg.input, cfg.target) IN
       CallHook("after_render_assembly", db.memo[k].value, Accumulated(db, k), "write_asm")
    /\ UNCHANGED << cfg, db, exit >>

WriteAssembly ==
    /\ pc = "write_asm"
    /\ \E ok \in BOOLEAN :
        /\ trace' = Append(trace, WriteEv("temp/assembly.s", ok))
        /\ OrReturnErr(ok, "io", "link")
    /\ UNCHANGED << cfg, db, exit >>

\* the linker writes the binary to the output path when it succeeds
AssembleAndLink ==
    /\ pc = "link"
    /\ \E ok \in BOOLEAN :
        /\ trace' = trace \o << ToolEv("assemble_and_link", ok) >>
                          \o (IF ok THEN << WriteEv("output", TRUE) >> ELSE <<>>)
        /\ OrReturnErr(ok, "command", "chmod")
    /\ UNCHANGED << cfg, db, exit >>

SetPermissions ==
    /\ pc = "chmod"
    /\ \E ok \in BOOLEAN : OrReturnErr(ok, "io", "after_compile")
    /\ UNCHANGED << cfg, db, trace, exit >>

AfterCompile ==
    /\ pc = "after_compile"
    /\ CallHook("after_compile", "output", <<>>, "finish")
    /\ UNCHANGED << cfg, db, exit >>

Finish ==
    /\ pc = "finish"
    /\ Return(Outcome("Ok", ""))
    /\ UNCHANGED << cfg, db, trace, exit >>

\* the match on the Outcome at the end of Cli::run; a panic ends the process
Cli_run_result ==
    /\ pc = "returned"
    /\ cfg.mode = "cli"
    /\ pc' = "exited"
    /\ exit' = CASE outcome.kind = "Ok" -> "Ok"
                 [] outcome.kind = "Err" -> "Err"
                 [] outcome.kind = "EarlyReturn" -> "Err"
                 [] outcome.kind = "Panic" -> "Panic"
    /\ UNCHANGED << cfg, db, temp, trace, outcome >>

Next ==
    /\ UNCHANGED << hook, sessions, ncalls, last, unit >>
    /\ \/ Cli_run
       \/ Cli_run_unreadable
       \/ Library_run
       \/ CreateTempDir
       \/ Preprocess
       \/ WritePreprocessed
       \/ Parse
       \/ AfterParse
       \/ Lower
       \/ AfterLower
       \/ GenerateAssembly
       \/ AfterCodegen
       \/ RenderProgram
       \/ AfterRenderAssembly
       \/ WriteAssembly
       \/ AssembleAndLink
       \/ SetPermissions
       \/ AfterCompile
       \/ Finish
       \/ Cli_run_result

Spec == Init /\ [][Next]_vars

(***************************************************************************)
(* Properties of run.                                                      *)
(***************************************************************************)
HookOrder ==
    << "after_parse", "after_lower", "after_codegen", "after_render_assembly",
       "after_compile" >>
StageQuery ==
    << "parse", "lower", "generate_assembly", "render_program", "assemble_and_link" >>

IndexIn(seq, x) == CHOOSE i \in DOMAIN seq : seq[i] = x

IsHook(e) == e.ev = "hook"
IsStart(e, name) == e.ev \in {"query", "tool"} /\ e.name = name
Ended == pc \in {"returned", "exited"}

StageKey(k) ==
    IF k = 4 THEN Key(StageQuery[k], cfg.input, cfg.target)
    ELSE Key(StageQuery[k], cfg.input, 0)

\* the hook of stage k was called with the stage's artifact and diagnostics, and continued
ContinuedAt(i, k) ==
    /\ IsHook(trace[i])
    /\ trace[i].name = HookOrder[k]
    /\ trace[i].ret = Continue
    /\ trace[i].artifact = db.memo[StageKey(k)].value
    /\ trace[i].diags = Accumulated(db, StageKey(k))

\* C1: the hooks are called in the order after_parse, after_lower, after_codegen,
\* after_render_assembly, after_compile, each at most once, and the query of
\* stage k+1 starts only after the hook of stage k was called with stage k's
\* artifact and diagnostics and returned Continue.
C1_HooksInOrder ==
    /\ \A i, j \in DOMAIN trace :
        (i < j /\ IsHook(trace[i]) /\ IsHook(trace[j]))
            => IndexIn(HookOrder, trace[i].name) < IndexIn(HookOrder, trace[j].name)
    /\ \A k \in 1..4 : \A j \in DOMAIN trace :
        IsStart(trace[j], StageQuery[k + 1])
            => \E i \in 1..(j - 1) : ContinuedAt(i, k)

C1_Witness ==
    /\ pc = "returned"
    /\ outcome.kind = "Ok"
    /\ cfg.observer = "custom"
    /\ Cardinality({ i \in DOMAIN trace : IsHook(trace[i]) }) = 5

\* C2: when a hook returns Break(v), run returns EarlyReturn(v) with the same v,
\* and nothing follows the hook: no query, no hook, no write, no external tool.
C2_BreakPropagates ==
    \A i \in DOMAIN trace :
        (IsHook(trace[i]) /\ trace[i].ret.kind = "Break")
            => /\ i = Len(trace)
               /\ Ended
               /\ outcome = Outcome("EarlyReturn", trace[i].ret.value)

C2_Witness ==
    /\ pc = "returned"
    /\ cfg.observer = "custom"
    /\ Len(trace) > 0
    /\ trace[Len(trace)].ev = "hook"
    /\ trace[Len(trace)].name = "after_codegen"
    /\ trace[Len(trace)].ret = Break("v2")
    /\ outcome = Outcome("EarlyReturn", "v2")

\* a failure of the preprocessor, of a write into the temporary directory, or of the linker
IsFailure(e) ==
    \/ e.ev = "tool" /\ ~e.ok
    \/ e.ev = "write" /\ e.name \in {"temp/preprocessed.c", "temp/assembly.s"} /\ ~e.ok

\* C3: when preprocessing, a write of a temporary file or assemble_and_link fails,
\* run returns Err and nothing is called after the failure; a preprocessing
\* failure comes before the parse query and before every hook.
C3_FailureReturnsErr ==
    \A i \in DOMAIN trace :
        IsFailure(trace[i])
            => /\ i = Len(trace)
               /\ Ended
               /\ outcome.kind = "Err"
               /\ (trace[i].name = "preprocess" => i = 1)

C3_Witness ==
    /\ pc = "returned"
    /\ outcome.kind = "Err"
    /\ Len(trace) > 0
    /\ trace[Len(trace)] = ToolEv("assemble_and_link", FALSE)
    /\ \E i \in DOMAIN trace : IsHook(trace[i]) /\ trace[i].name = "after_render_assembly"

\* some stage that ran accumulated a diagnostic of severity Error or above
SomeStageFailed ==
    \E k \in DOMAIN db.memo : \E n \in DOMAIN db.memo[k].own :
        SeverityRank(db.memo[k].own[n].severity) >= SeverityRank("Error")

\* C4: the output path is written only after after_parse, after_lower,
\* after_codegen and after_render_assembly all returned Continue, and with the
\* default observer never when a stage accumulated a diagnostic of severity
\* Error or above.
C4_OutputOnlyOnSuccess ==
    \A j \in DOMAIN trace :
        (trace[j].ev = "write" /\ trace[j].name = "output")
            => /\ \A k \in 1..4 : \E i \in 1..(j - 1) :
                    /\ IsHook(trace[i])
                    /\ trace[i].name = HookOrder[k]
                    /\ trace[i].ret = Continue
               /\ (cfg.observer = "default" => ~SomeStageFailed)

C4_Witness ==
    /\ cfg.observer = "default"
    /\ ~SomeStageFailed
    /\ \E j \in DOMAIN trace : trace[j] = WriteEv("output", TRUE)

\* C5: once the temporary directory exists it is released on every way out of
\* run: Ok, every Err, every EarlyReturn.
C5_TempDirReleased ==
    Ended => temp # "live"

C5_Witness ==
    /\ pc = "returned"
    /\ temp = "released"
    /\ outcome.kind = "EarlyReturn"

(***************************************************************************)
(* The hooks of DefaultCallbacks on their own: one call of a hook with any *)
(* stop flag, any diagnostics and any outcome of the two writes it does.   *)
(***************************************************************************)
MaxDiags == 2

DiagnosticLists ==
    UNION { [1..n -> { Diagnostic(sev, "message", NoCode, 1, Span(0, 1), "")
                       : sev \in {"Help", "Note", "Warning", "Error", "Bug"} }] : n \in 0..MaxDiags }

CallDefaultHook ==
    /\ hook = NoHook
    /\ \E name \in Range(HookOrder), stop_at \in Stages, keep_assembly \in BOOLEAN,
          diags \in DiagnosticLists, emit_ok \in BOOLEAN, write_ok \in BOOLEAN :
        LET cb == [stop_at |-> stop_at, assembly_path |-> keep_assembly] IN
        hook' = [name |-> name, cb |-> cb, diags |-> diags,
                 emit_ok |-> emit_ok, write_ok |-> write_ok,
                 ret |-> DefaultHook(name, cb, diags, emit_ok, write_ok)]
    /\ UNCHANGED << pc, cfg, db, temp, trace, outcome, exit, sessions, ncalls, last, unit >>

NextObs == CallDefaultHook

SpecObs == Init /\ [][NextObs]_vars

HasError(diags) ==
    \E i \in DOMAIN diags : diags[i].severity \in {"Error", "Bug"}

StopFlag(name, stop_at) ==
    \/ name = "after_parse" /\ (stop_at.lex \/ stop_at.parse)
    \/ name = "after_lower" /\ stop_at.tacky
    \/ name = "after_codegen" /\ stop_at.codegen

\* the hook could not print a diagnostic, or could not write the assembly file
EmitFailed == Len(hook.diags) > 0 /\ ~hook.emit_ok
AssemblyWriteFailed ==
    /\ hook.name = "after_render_assembly"
    /\ hook.cb.assembly_path
    /\ ~hook.write_ok

DiagnosticHooks == Range(HookOrder) \ {"after_compile"}

\* C6 as stated: at after_parse, after_lower, after_codegen and
\* after_render_assembly the default observer breaks with Compilation failed
\* if and only if a diagnostic handed to the hook has severity Error or above;
\* otherwise it breaks with success exactly when the stage's stop flag is set,
\* and otherwise continues.
C6_AsStated ==
    hook.name \in DiagnosticHooks
        => /\ (hook.ret = Break("Err(Compilation failed)")) <=> HasError(hook.diags)
           /\ ~HasError(hook.diags)
                => hook.ret = IF StopFlag(hook.name, hook.cb.stop_at)
                              THEN Break("Ok(())") ELSE Continue

\* C6 amended: when printing the diagnostics fails the hook breaks with that
\* error, whatever the severities and flags; when printing succeeds it breaks
\* with Compilation failed if and only if a diagnostic has severity Error or
\* above, otherwise breaks with success exactly when the stage's stop flag is
\* set, otherwise breaks with the write error when after_render_assembly
\* cannot write the kept assembly file, and otherwise continues.
C6_DefaultObserverPolicy ==
    hook.name \in DiagnosticHooks
        => IF EmitFailed THEN hook.ret = Break("Err(emit)")
           ELSE /\ (hook.ret = Break("Err(Compilation failed)")) <=> HasError(hook.diags)
                /\ ~HasError(hook.diags)
                     => hook.ret = IF StopFlag(hook.name, hook.cb.stop_at)
                                   THEN Break("Ok(())")
                                   ELSE IF AssemblyWriteFailed
                                   THEN Break("Err(write assembly)")
                                   ELSE Continue

C6_Witness ==
    /\ hook.name = "after_lower"
    /\ Len(hook.diags) = 2
    /\ hook.diags[1].severity = "Warning"
    /\ hook.diags[2].severity = "Error"
    /\ hook.emit_ok
    /\ hook.ret = Break("Err(Compilation failed)")

\* C7: a run of the CLI that --lex, --parse, --tacky or --codegen stops, on an
\* input with no diagnostic of severity Error or above up to that stage,
\* reports success; failure is reported only for a process error, a
\* diagnostic of severity Error or above, or a failed link.
C7_ExitCodes ==
    (pc = "exited" /\ cfg.mode = "cli")
        => /\ outcome = Outcome("EarlyReturn", "Ok(())") => exit = "Ok"
           /\ exit # "Ok" =>
                \/ outcome.kind = "Err"
                \/ outcome.kind = "Panic"
                \/ outcome.kind = "EarlyReturn" /\ outcome.value # "Ok(())"

(***************************************************************************)
(* Two sessions (databases) and a client that invokes the pipeline queries *)
(* on them.  A query takes the result of the stage before it, so the       *)
(* client obtains its input by calling the stages before it, as run does:  *)
(* render_program(db, generate_assembly(db, lower(db, parse(db, file)))).  *)
(***************************************************************************)
Pipeline == << "parse", "lower", "generate_assembly", "render_program" >>

KeyOf(q, file, target) ==
    Key(q, file, IF q = "render_program" THEN target ELSE 0)

\* a call of the query Pipeline[n]
Call(d, n, file, target) ==
    CASE n = 1 -> tracked_parse(d, file)
      [] n = 2 -> tracked_lower(d, file)
      [] n = 3 -> tracked_generate_assembly(d, file)
      [] n = 4 -> tracked_render_program(d, file, target)

\* the calls of the stages i..upto, each on the database the one before left;
\* r is what the call before returned
RECURSIVE CallPipeline(_, _, _, _, _)
CallPipeline(r, file, target, upto, i) ==
    IF r.panicked \/ i > upto THEN r
    ELSE CallPipeline(Call(r.db, i, file, target), file, target, upto, i + 1)

\* the client's record of a call: what it returned and what accumulated reports
Invoked(s, k, before, r) ==
    /\ sessions' = [sessions EXCEPT ![s] = r.db]
    /\ last' = [session |-> s, key |-> k, panicked |-> r.panicked,
                hit |-> MemoHit(before, k),
                value |-> r.value,
                accumulated |-> IF r.panicked THEN <<>> ELSE Accumulated(r.db, k),
                value_before |-> IF MemoHit(before, k) THEN before.memo[k].value ELSE NoVal,
                accumulated_before |->
                    IF MemoHit(before, k) THEN Accumulated(before, k) ELSE <<>>,
                execs_before |-> Executions(before, k),
                execs_after |-> Executions(r.db, k)]

Invoke(s, n, file, target) ==
    /\ ncalls < MaxCalls
    /\ ncalls' = ncalls + 1
    /\ Invoked(s, KeyOf(Pipeline[n], file, target), sessions[s],
               CallPipeline(Done(sessions[s], NoVal, <<>>, <<>>), file, target, n, 1))
    /\ UNCHANGED << pc, cfg, db, temp, trace, outcome, exit, hook, unit >>

\* the sources the client works on: the && source, the bare return, the
\* unsupported items, and the two functions of which the second cannot be lowered
ClientFiles == {2, 5, 6, 7}

InvokeParse == \E s \in 1..2, file \in ClientFiles : Invoke(s, 1, file, 0)
InvokeLower == \E s \in 1..2, file \in ClientFiles : Invoke(s, 2, file, 0)
InvokeGenerateAssembly == \E s \in 1..2, file \in ClientFiles : Invoke(s, 3, file, 0)
InvokeRenderProgram ==
    \E s \in 1..2, file \in ClientFiles, target \in 1..Len(Targets) :
        Invoke(s, 4, file, target)

NextQ ==
    \/ InvokeParse
    \/ InvokeLower
    \/ InvokeGenerateAssembly
    \/ InvokeRenderProgram

SpecQ == Init /\ [][NextQ]_vars

Called == last # NoCall
PipelineKeys(d) == { k \in DOMAIN d.execs : k.q \in Range(Pipeline) }

\* C8: in one session a second invocation of parse, lower, generate_assembly or
\* render_program with the inputs of an earlier one does not execute the stage
\* body again and returns the memoized result, and the accumulated diagnostics
\* for those inputs are the same set as after the first invocation.
C8_NoReExecution ==
    /\ \A s \in 1..2 : \A k \in PipelineKeys(sessions[s]) :
            Executions(sessions[s], k) <= 1
    /\ (Called /\ last.hit)
            => /\ ~last.panicked
               /\ last.execs_after = last.execs_before
               /\ last.value = last.value_before
               /\ Range(last.accumulated) = Range(last.accumulated_before)

\* C9: the queries are deterministic: a query called on equal inputs, again in
\* the same session or in another session with another history, gives equal
\* results and equal sets of accumulated diagnostics (and fails in one exactly
\* when it fails in the other).
C9_Deterministic ==
    /\ \A k \in DOMAIN sessions[1].execs \cap DOMAIN sessions[2].execs :
            /\ MemoHit(sessions[1], k) <=> MemoHit(sessions[2], k)
            /\ MemoHit(sessions[1], k) =>
                /\ sessions[1].memo[k].value = sessions[2].memo[k].value
                /\ Range(Accumulated(sessions[1], k)) = Range(Accumulated(sessions[2], k))
    /\ (Called /\ last.execs_before > 0)
            => /\ last.panicked <=> ~last.hit
               /\ last.hit => /\ last.value = last.value_before
                              /\ Range(last.accumulated) = Range(last.accumulated_before)

\* lower(parse(S)) for the && source ran in both sessions, after different histories
C9_Witness ==
    LET k == Key("lower", 2, 0) IN
    /\ MemoHit(sessions[1], k) /\ MemoHit(sessions[2], k)
    /\ Cardinality(DOMAIN sessions[1].memo) # Cardinality(DOMAIN sessions[2].memo)
    /\ Len(sessions[1].memo[k].value.functions) = 1
    /\ Len(sessions[1].memo[k].value.functions[1].instructions) > 3

\* C10: what accumulated reports for a call of lower contains what the body of
\* lower emitted itself (one diagnostic for each item that is not a function
\* definition) and everything emitted inside each lower_function it called,
\* also when the results are served from the memo table.
C10_AccumulationComposes ==
    (Called /\ last.key.q = "lower" /\ ~last.panicked)
        => \A i \in DOMAIN Trees[last.key.file].items :
            LET item == Trees[last.key.file].items[i]
                sub == Key("lower_function", last.key.file, i)
            IN IF item.kind = "function_definition"
               THEN /\ MemoHit(sessions[last.session], sub)
                    /\ Range(sessions[last.session].memo[sub].own)
                            \subseteq Range(last.accumulated)
               ELSE \E d \in Range(last.accumulated) :
                        d.severity = "Bug" /\ d.span = item.span

C10_Witness ==
    /\ Called
    /\ last.key = Key("lower", 6, 0)
    /\ last.hit
    /\ \E d \in Range(sessions[last.session].memo[Key("lower_function", 6, 2)].own) :
            d \in Range(last.accumulated) /\ d.span = Span(32, 1)
    /\ \E d \in Range(last.accumulated) : d.span = Span(0, 6)

(***************************************************************************)
(* The machine the rendered assembly runs on.  Each asm::Instruction has   *)
(* the effect of the lines render_instruction writes for it, under the     *)
(* x86-64 semantics of those lines on 32-bit operands.  A machine is       *)
(* [status, pc, regs, stack]: stack maps the byte offset of a slot to its  *)
(* value.                                                                  *)
(***************************************************************************)
I32Min == -I32Max - 1

\* addl / subl / negl / notl / imull on 32-bit operands: two's complement
Add32(a, b) ==
    IF b > 0 /\ a > I32Max - b THEN ((a - I32Max) - 1) + ((b - I32Max) - 1)
    ELSE IF b < 0 /\ a < I32Min - b THEN ((a + I32Max) + 1) + ((b + I32Max) + 1)
    ELSE a + b

Sub32(a, b) ==
    IF b > 0 /\ a < I32Min + b THEN ((a + I32Max) + 1) + ((I32Max - b) + 1)
    ELSE IF b < 0 /\ a > I32Max + b THEN ((a - I32Max) - 1) + ((-1 - b) - I32Max)
    ELSE a - b

Double32(a) == Add32(a, a)

Times16(a) == Double32(Double32(Double32(Double32(a))))
Times256(a) == Times16(Times16(a))

\* the product, built from the binary digits of b, a byte of b at a time
RECURSIVE Mul32(_, _)
Mul32(a, b) ==
    IF b = 0 THEN 0
    ELSE IF b < 0 THEN Sub32(0, Add32(Mul32(a, -(b + 1)), a))
    ELSE IF b < 256 THEN Add32(Double32(Mul32(a, b \div 2)), IF b % 2 = 1 THEN a ELSE 0)
    ELSE Add32(Times256(Mul32(a, b \div 256)), Mul32(a, b % 256))

\* idivl after cdq: the quotient truncated toward zero and the remainder;
\* a zero divisor and I32Min / -1 raise #DE
Idiv32(a, b) ==
    IF b = 0 \/ (a = I32Min /\ b = -1) THEN [trap |-> TRUE, quotient |-> 0, remainder |-> 0]
    ELSE LET q == IF b = I32Min THEN (IF a = I32Min THEN 1 ELSE 0)
                  ELSE IF b > 0 THEN
                      (IF a < 0 /\ a % b # 0 THEN (a \div b) + 1 ELSE a \div b)
                  ELSE -(IF a < 0 /\ a % (-b) # 0 THEN (a \div (-b)) + 1 ELSE a \div (-b))
         IN [trap |-> FALSE, quotient |-> q, remainder |-> a - q * b]

\* cmpl right, left; set<cc> %al
Compare(op, left, right) ==
    CASE op = "Equal" -> left = right
      [] op = "NotEqual" -> left # right
      [] op = "LessThan" -> left < right
      [] op = "LessThanOrEqual" -> left <= right
      [] op = "GreaterThan" -> left > right
      [] op = "GreaterThanOrEqual" -> left >= right

Bit(b) == IF b THEN 1 ELSE 0

\* the machine on entry: the registers and the slots hold what was there before
Entry(offsets, junk) ==
    [status |-> "running", pc |-> 1,
     regs |-> [AX |-> junk, DX |-> junk, R10 |-> junk],
     stack |-> [o \in offsets |-> junk]]

Read(m, operand) ==
    CASE operand.kind = "Imm" -> operand.value
      [] operand.kind = "Register" -> m.regs[operand.reg]
      [] operand.kind = "Stack" -> m.stack[operand.offset]

Write(m, operand, value) ==
    CASE operand.kind = "Register" -> [m EXCEPT !.regs[operand.reg] = value]
      [] operand.kind = "Stack" -> [m EXCEPT !.stack[operand.offset] = value]

\* the positions of the lines `name:` in the function
LabelPositions(instructions, name) ==
    { i \in 1..Len(instructions) :
        instructions[i].kind = "Label" /\ instructions[i].name = name }

\* jmp / jz / jnz name: the assembler rejects a name no line or several lines define
JumpTo(instructions, m, name) ==
    IF Cardinality(LabelPositions(instructions, name)) = 1
    THEN [m EXCEPT !.pc = CHOOSE i \in LabelPositions(instructions, name) : TRUE]
    ELSE [m EXCEPT !.status = "unresolved label"]

Advance(m) == [m EXCEPT !.pc = @ + 1]

\* movb %al, operand: the low byte of the operand is replaced
WithLowByte(value, byte) == (value - (value % 256)) + byte

\* the test of a conditional jump: an Imm or Stack operand goes through %eax
Tested(m, condition) ==
    IF condition.kind = "Register" THEN m
    ELSE [m EXCEPT !.regs.AX = Read(m, condition)]

\* the effect of the instruction at m.pc
Execute(instructions, m, i) ==
    CASE i.kind = "AllocateStack" -> Advance(m)
      [] i.kind = "Mov" -> Advance(Write(m, i.dst, Read(m, i.src)))
      [] i.kind = "Unary" /\ i.op = "Neg" ->
            Advance(Write(m, i.operand, Sub32(0, Read(m, i.operand))))
      [] i.kind = "Unary" /\ i.op = "Complement" ->
            Advance(Write(m, i.operand, -1 - Read(m, i.operand)))
      [] i.kind = "Unary" /\ i.op = "Not" ->
            Advance(Write([m EXCEPT !.regs.AX =
                                WithLowByte(@, Bit(Read(m, i.operand) = 0))],
                          i.operand,
                          WithLowByte(Read(m, i.operand), Bit(Read(m, i.operand) = 0))))
      [] i.kind = "Ret" -> [m EXCEPT !.status = "returned"]
      [] i.kind = "Binary" /\ i.op = "Add" ->
            Advance(Write(m, i.dst, Add32(Read(m, i.dst), Read(m, i.src))))
      [] i.kind = "Binary" /\ i.op = "Sub" ->
            Advance(Write(m, i.dst, Sub32(Read(m, i.dst), Read(m, i.src))))
      [] i.kind = "Binary" /\ i.op = "Mul" ->
            Advance(Write(m, i.dst, Mul32(Read(m, i.dst), Read(m, i.src))))
      [] i.kind = "Comparison" ->
            Advance(Write([m EXCEPT !.regs.AX =
                                Bit(Compare(i.op, Read(m, i.left), Read(m, i.right)))],
                          i.dst, Bit(Compare(i.op, Read(m, i.left), Read(m, i.right)))))
      [] i.kind = "Idiv" ->
            IF m.regs.DX # (IF m.regs.AX < 0 THEN -1 ELSE 0)
            THEN [m EXCEPT !.status = "wide dividend"]
            ELSE IF Idiv32(m.regs.AX, Read(m, i.src)).trap
            THEN [m EXCEPT !.status = "divide error"]
            ELSE Advance([m EXCEPT
                    !.regs.AX = Idiv32(m.regs.AX, Read(m, i.src)).quotient,
                    !.regs.DX = Idiv32(m.regs.AX, Read(m, i.src)).remainder])
      [] i.kind = "Cdq" ->
            Advance([m EXCEPT !.regs.DX = IF m.regs.AX < 0 THEN -1 ELSE 0])
      [] i.kind = "Label" -> Advance(m)
      [] i.kind = "Jump" -> JumpTo(instructions, m, i.target)
      [] i.kind = "JumpIfZero" ->
            IF Read(m, i.condition) = 0
            THEN JumpTo(instructions, Tested(m, i.condition), i.target)
            ELSE Advance(Tested(m, i.condition))
      [] i.kind = "JumpIfNotZero" ->
            IF Read(m, i.condition) # 0
            THEN JumpTo(instructions, Tested(m, i.condition), i.target)
            ELSE Advance(Tested(m, i.condition))

\* the machine runs the instructions of a function until it returns, stops on
\* a fault, or runs past the last instruction
RECURSIVE Run(_, _)
Run(instructions, m) ==
    IF m.status # "running" THEN m
    ELSE IF m.pc > Len(instructions) THEN [m EXCEPT !.status = "ran off the end"]
    ELSE Run(instructions, Execute(instructions, m, instructions[m.pc]))

(***************************************************************************)
(* One function `int main(void) { return e; }` taken through              *)
(* lower_function, to_assembly and fix_up_instructions and run on the      *)
(* machine, for the expressions e of a bounded grammar.                    *)
(***************************************************************************)
\* the largest single-digit literal of the grammar
MaxLiteral == 1

At == Span(24, 1)

Literals ==
    { Num(<< ToString(n) >>, At) : n \in 0..MaxLiteral }
    \cup { Num(<< "2", "1", "4", "7", "4", "8", "3", "6", "4", "7" >>, At) }

\* an identifier is an expression the lowering does not implement
Leaves == Literals \cup { Node("identifier", At) }

UnaryTokens == {"-", "~", "!", "+"}
\* "^" is a binary operator the lowering does not implement
BinaryTokens ==
    {"+", "-", "*", "/", "%", "==", "!=", "<", "<=", ">", ">=", "&&", "||", "^"}

Simple ==
    Leaves
    \cup { UnaryExpr(op, a, At) : op \in UnaryTokens, a \in Leaves }
    \cup { BinaryExpr(op, a, b, At) : op \in BinaryTokens, a \in Leaves, b \in Leaves }
    \cup { Paren(a, At) : a \in Leaves }

\* the temporaries the operands of && and || are computed into
Computed ==
    { UnaryExpr(op, a, At) : op \in {"-", "~"}, a \in Literals }
    \cup { BinaryExpr(op, a, b, At) : op \in {"+", "-", "*"}, a \in Literals, b \in Literals }

Lit(text) == Num(text, At)

\* -(~5), 2 + 3 * 4, (10 / 3) * 3 + 10 % 3
Examples ==
    { UnaryExpr("-", Paren(UnaryExpr("~", Lit(<< "5" >>), At), At), At),
      BinaryExpr("+", Lit(<< "2" >>),
                 BinaryExpr("*", Lit(<< "3" >>), Lit(<< "4" >>), At), At),
      BinaryExpr("+",
                 BinaryExpr("*", Paren(BinaryExpr("/", Lit(<< "1", "0" >>), Lit(<< "3" >>), At),
                                       At),
                            Lit(<< "3" >>), At),
                 BinaryExpr("%", Lit(<< "1", "0" >>), Lit(<< "3" >>), At), At) }

\* 2147483648, 0x10 and 1u: number literals whose text is not an i32
NotI32 ==
    { Lit(<< "2", "1", "4", "7", "4", "8", "3", "6", "4", "8" >>),
      Lit(<< "0", "x", "1", "0" >>), Lit(<< "1", "u" >>) }

\* the operands of an asm::Instruction
Operands(i) ==
    CASE i.kind = "Mov" -> {i.src, i.dst}
      [] i.kind = "Unary" -> {i.operand}
      [] i.kind = "Binary" -> {i.src, i.dst}
      [] i.kind = "Idiv" -> {i.src}
      [] i.kind = "Comparison" -> {i.left, i.right, i.dst}
      [] i.kind \in {"JumpIfZero", "JumpIfNotZero"} -> {i.condition}
      [] OTHER -> {}

\* the offsets of the stack slots a function names
Offsets(instructions) ==
    { o.offset : o \in { p \in UNION { Operands(instructions[n]) : n \in 1..Len(instructions) } :
                           p.kind = "Stack" } }

\* what the registers and the slots hold when the function is entered
Junk == {0, 171}

\* the tacky::FunctionDefinition lower_function makes of a context
TacFunction(name, ctx) ==
    [kind |-> "FunctionDefinition", name |-> name, instructions |-> ctx.instructions,
     span |-> Span(0, 28), file |-> 1, idx |-> 1]

\* the runs of the function, one for each content of the machine on entry
Runs(instructions) ==
    { Run(instructions, Entry(Offsets(instructions), junk)) : junk \in Junk }

\* the function run on the machine
Ran(e, ctx, selected, asm) ==
    [kind |-> "function", expr |-> e, diags |-> ctx.diags, tac |-> ctx.instructions,
     selected |-> selected.instructions, asm |-> asm.instructions,
     runs |-> Runs(asm.instructions)]

\* codegen's lower_function: to_assembly, then fix_up_instructions
Selected(e, ctx, selected) == Ran(e, ctx, selected, fix_up_instructions(selected))

\* ctx is the context after lower_body; a panic leaves no function
Compiled(e, ctx) ==
    IF ctx.panicked THEN [kind |-> "panicked", expr |-> e]
    ELSE Selected(e, ctx, to_assembly(TacFunction("main", ctx)))

Compile(e) ==
    unit' = Compiled(e, lower_body(FunctionContextNew(EmptyDb, 1),
                                   << ReturnStmt(e, Span(17, 9)) >>, 1))

\* the shapes of the expressions: an expression of Simple, Examples or NotI32;
\* op a with a of Simple; a op b with b a leaf; a op b with a a leaf; and
\* a && b, a || b with two computed operands
Shapes == {"e", "op a", "a op leaf", "leaf op b", "a && b"}

OperatorsOf(shape) ==
    CASE shape = "e" -> {"+"}
      [] shape = "op a" -> UnaryTokens
      [] shape = "a && b" -> {"&&", "||"}
      [] OTHER -> BinaryTokens

LeftOf(shape) ==
    CASE shape = "e" -> Simple \cup Examples \cup NotI32
      [] shape = "op a" -> Simple \ Leaves
      [] shape = "a op leaf" -> Simple
      [] shape = "leaf op b" -> Leaves
      [] shape = "a && b" -> Computed

RightOf(shape) ==
    CASE shape \in {"e", "op a"} -> {Lit(<< "0" >>)}
      [] shape = "a op leaf" -> Leaves
      [] shape = "leaf op b" -> Simple
      [] shape = "a && b" -> Computed

Shaped(shape, op, a, b) ==
    CASE shape = "e" -> a
      [] shape = "op a" -> UnaryExpr(op, a, At)
      [] OTHER -> BinaryExpr(op, a, b, At)

CompileFunction ==
    /\ unit = NoUnit
    /\ \E shape \in Shapes :
         \E op \in OperatorsOf(shape), a \in LeftOf(shape), b \in RightOf(shape) :
            Compile(Shaped(shape, op, a, b))
    /\ UNCHANGED << pc, cfg, db, temp, trace, outcome, exit, hook, sessions, ncalls, last >>

NextCompile == CompileFunction

SpecCompile == Init /\ [][NextCompile]_vars

(***************************************************************************)
(* Properties of the lowered and generated function.                       *)
(***************************************************************************)
IsFunction == unit.kind = "function"

\* the positions of the instructions of tac that assign the variable dst
Assigned(tac, dst) ==
    { n \in 1..Len(tac) :
        tac[n].kind \in {"Unary", "Binary", "Comparison", "Copy"} /\ tac[n].dst = dst }

Assigning(tac) ==
    { n \in 1..Len(tac) : tac[n].kind \in {"Unary", "Binary", "Comparison", "Copy"} }

\* C11 as stated: in every TAC function produced by lowering, every
\* Anonymous variable is assigned exactly once: no two Unary, Binary,
\* Comparison or Copy instructions have the same destination, also in
\* functions with && or ||.
C11_AsStated ==
    IsFunction =>
        \A n \in Assigning(unit.tac) : Assigned(unit.tac, unit.tac[n].dst) = {n}

\* C11 amended: the destination of a Unary, Binary or Comparison instruction
\* is the destination of no other instruction; the destination of a Copy is
\* the result of one && or ||, and is the destination of exactly two
\* instructions, both Copy, one on each branch.
C11_AnonymousAssignedOncePerBranch ==
    IsFunction =>
        \A n \in Assigning(unit.tac) :
            IF unit.tac[n].kind = "Copy"
            THEN /\ Cardinality(Assigned(unit.tac, unit.tac[n].dst)) = 2
                 /\ \A k \in Assigned(unit.tac, unit.tac[n].dst) : unit.tac[k].kind = "Copy"
            ELSE Assigned(unit.tac, unit.tac[n].dst) = {n}

\* return -(1 && 0): the result of && is copied into on both branches and
\* the negation has a destination of its own
C11_Witness ==
    /\ IsFunction
    /\ unit.expr.kind = "unary_expression"
    /\ unit.expr.operator = "-"
    /\ unit.expr.argument.kind = "binary_expression"
    /\ unit.expr.argument.operator = "&&"
    /\ Len(unit.tac) = 9
    /\ unit.tac[Len(unit.tac)].kind = "Return"

Jumps == {"Jump", "JumpIfZero", "JumpIfNotZero"}

\* every jump of the function has exactly one label of its name in the function
Resolved(instructions) ==
    \A n \in 1..Len(instructions) :
        instructions[n].kind \in Jumps
            => Cardinality(LabelPositions(instructions, instructions[n].target)) = 1

\* C12: in every TAC function produced by lower and in every assembly
\* function generated from it, the target of each Jump, JumpIfZero and
\* JumpIfNotZero matches exactly one Label of the same function, also when
\* lowering the right operand of && or || yields no value.
C12_LabelsResolve ==
    IsFunction => Resolved(unit.tac) /\ Resolved(unit.asm)

IsComparison(i, left, right) ==
    i.kind = "Comparison" /\ i.left.kind = left /\ i.right.kind = right

\* C13: after the fix-up no Mov has two Stack operands, no Idiv has an Imm
\* source, no Comparison has two Imm operands or the pairing (Stack, Imm) or
\* (Imm, Stack): a Comparison with an Imm operand has a register on the left.
C13_OperandsLegal ==
    IsFunction =>
        \A n \in 1..Len(unit.asm) :
            /\ ~(unit.asm[n].kind = "Mov" /\ unit.asm[n].src.kind = "Stack"
                                          /\ unit.asm[n].dst.kind = "Stack")
            /\ ~(unit.asm[n].kind = "Idiv" /\ unit.asm[n].src.kind = "Imm")
            /\ ~IsComparison(unit.asm[n], "Imm", "Imm")
            /\ ~IsComparison(unit.asm[n], "Stack", "Imm")
            /\ ~IsComparison(unit.asm[n], "Imm", "Stack")
            /\ (unit.asm[n].kind = "Comparison"
                    /\ "Imm" \in {unit.asm[n].left.kind, unit.asm[n].right.kind})
                => unit.asm[n].left.kind = "Register"

\* return (0 / 1) < 1: Pass A selected an Idiv of an Imm and a Comparison of a
\* slot with an Imm, and the fix-up put a Mov to R10 before each
C13_Witness ==
    /\ IsFunction
    /\ \E n \in 1..Len(unit.selected) :
            unit.selected[n].kind = "Idiv" /\ unit.selected[n].src.kind = "Imm"
    /\ \E n \in 1..Len(unit.selected) : IsComparison(unit.selected[n], "Stack", "Imm")
    /\ Len(unit.asm) > Len(unit.selected)

\* the values a TAC instruction hands to operand_for, in the order of the calls
TacVals(i) ==
    CASE i.kind = "Return" -> << i.val >>
      [] i.kind \in {"Unary", "Copy"} -> << i.src, i.dst >>
      [] i.kind \in {"Binary", "Comparison"} -> << i.left_src, i.right_src, i.dst >>
      [] i.kind \in {"JumpIfZero", "JumpIfNotZero"} -> << i.condition >>
      [] OTHER -> << >>

RECURSIVE ValsOf(_, _)
ValsOf(tac, n) == IF n > Len(tac) THEN << >> ELSE TacVals(tac[n]) \o ValsOf(tac, n + 1)

\* the positions at which a variable is seen for the first time
FirstSeen(vals) ==
    { j \in 1..Len(vals) : vals[j].kind = "Var" /\ \A i \in 1..(j - 1) : vals[i] # vals[j] }

\* the slot of the variable first seen at position j: four bytes for each
\* variable seen before it
SlotOf(vals, j) == 4 * Cardinality({ i \in FirstSeen(vals) : i < j })

\* C14: the Stack offsets an assembly function uses are exactly 0, 4, ...,
\* 4(n-1), n being the number of distinct variables of the TAC function, and
\* the slots are given in first-seen order: the variable a Return names is
\* read from the slot of its rank (the indices of the Anonymous variables
\* are not contiguous, labels being drawn from the same counter).
C14_StackSlots ==
    IsFunction =>
        /\ Offsets(unit.asm) =
                { 4 * (k - 1) : k \in 1..Cardinality(FirstSeen(ValsOf(unit.tac, 1))) }
        /\ \A j \in FirstSeen(ValsOf(unit.tac, 1)) :
                (/\ unit.tac[Len(unit.tac)].kind = "Return"
                 /\ unit.tac[Len(unit.tac)].val = ValsOf(unit.tac, 1)[j])
                => unit.asm[Len(unit.asm) - 1] =
                        Mov(Stack(SlotOf(ValsOf(unit.tac, 1), j)), Register("AX"))

\* return -(1 && 0): the variables are Anonymous(3), Anonymous(2) and
\* Anonymous(4), in the slots 0, 4 and 8
C14_Witness ==
    /\ C11_Witness
    /\ Offsets(unit.asm) = {0, 4, 8}
    /\ unit.tac[2].dst = Var(Anonymous(3))
    /\ unit.asm[Len(unit.asm) - 1] = Mov(Stack(8), Register("AX"))

(***************************************************************************)
(* The value of an expression under C int arithmetic: ok is whether it has *)
(* one (no division by zero, no I32Min / -1, every literal an int),        *)
(* overflow whether computing it overflows, value the value, wrapped.      *)
(***************************************************************************)
Undefined == [ok |-> FALSE, overflow |-> FALSE, value |-> 0]
Value(v, overflow) == [ok |-> TRUE, overflow |-> overflow, value |-> v]

AddOverflows(a, b) == (b > 0 /\ a > I32Max - b) \/ (b < 0 /\ a < I32Min - b)
SubOverflows(a, b) == (b > 0 /\ a < I32Min + b) \/ (b < 0 /\ a > I32Max + b)
MulOverflows(a, b) ==
    /\ a # 0
    /\ b # 0
    /\ \/ (a = -1 /\ b = I32Min)
       \/ (b = -1 /\ a = I32Min)
       \/ (a # -1 /\ b # -1 /\ Idiv32(Mul32(a, b), b).quotient # a)

UnaryValue(op, a) ==
    IF ~a.ok THEN Undefined
    ELSE CASE op = "-" -> Value(Sub32(0, a.value), a.overflow \/ a.value = I32Min)
           [] op = "~" -> Value(-1 - a.value, a.overflow)
           [] op = "+" -> a
           [] OTHER -> Undefined

\* b is the value of the right operand, which && and || do not always evaluate
BinaryValue(op, a, b) ==
    IF ~a.ok THEN Undefined
    ELSE IF op = "&&" /\ a.value = 0 THEN Value(0, a.overflow)
    ELSE IF op = "||" /\ a.value # 0 THEN Value(1, a.overflow)
    ELSE IF ~b.ok THEN Undefined
    ELSE CASE op \in {"&&", "||"} -> Value(Bit(b.value # 0), a.overflow \/ b.overflow)
           [] op = "+" -> Value(Add32(a.value, b.value),
                                a.overflow \/ b.overflow \/ AddOverflows(a.value, b.value))
           [] op = "-" -> Value(Sub32(a.value, b.value),
                                a.overflow \/ b.overflow \/ SubOverflows(a.value, b.value))
           [] op = "*" -> Value(Mul32(a.value, b.value),
                                a.overflow \/ b.overflow \/ MulOverflows(a.value, b.value))
           [] op \in {"/", "%"} ->
                IF Idiv32(a.value, b.value).trap THEN Undefined
                ELSE Value(IF op = "/" THEN Idiv32(a.value, b.value).quotient
                           ELSE Idiv32(a.value, b.value).remainder,
                           a.overflow \/ b.overflow)
           [] OTHER -> Undefined

LiteralValue(p) == IF p.ok THEN Value(p.value, FALSE) ELSE Undefined

RECURSIVE CValue(_)
CValue(e) ==
    CASE e.kind = "number_literal" -> LiteralValue(ParseI32(e.text))
      [] e.kind = "parenthesized_expression" -> CValue(e.child)
      [] e.kind = "unary_expression" -> UnaryValue(e.operator, CValue(e.argument))
      [] e.kind = "binary_expression" ->
            BinaryValue(e.operator, CValue(e.left), CValue(e.right))
      [] OTHER -> Undefined

\* lowering got to the end of the return statement
ReturnLowered ==
    IsFunction /\ Len(unit.tac) > 0 /\ unit.tac[Len(unit.tac)].kind = "Return"

Returns(value) == \A r \in unit.runs : r.status = "returned" /\ r.regs.AX = value

ShortCircuit == {"&&", "||"}

\* C15: for operands a and b that are constants or temporaries computed
\* without side effects, which the lowering implements and which have a value,
\* the code generated for a && b returns 0 if a is 0 or
\* b is 0 and 1 otherwise, and the code generated for a || b returns 0 if a
\* is 0 and b is 0 and 1 otherwise.
C15_ShortCircuitValue ==
    (/\ ReturnLowered
     /\ unit.expr.kind = "binary_expression"
     /\ unit.expr.operator \in ShortCircuit
     /\ CValue(unit.expr.left).ok
     /\ CValue(unit.expr.right).ok)
    => Returns(IF unit.expr.operator = "&&"
               THEN Bit(CValue(unit.expr.left).value # 0 /\ CValue(unit.expr.right).value # 0)
               ELSE Bit(CValue(unit.expr.left).value # 0 \/ CValue(unit.expr.right).value # 0))

\* return -1 && (0 - 1): both operands are temporaries, and the function returns 1
C15_Witness ==
    /\ IsFunction
    /\ unit.expr = BinaryExpr("&&", UnaryExpr("-", Lit(<< "1" >>), At),
                              BinaryExpr("-", Lit(<< "0" >>), Lit(<< "1" >>), At), At)
    /\ Returns(1)

RECURSIVE Arithmetic(_)
Arithmetic(e) ==
    CASE e.kind = "number_literal" -> TRUE
      [] e.kind = "parenthesized_expression" -> Arithmetic(e.child)
      [] e.kind = "unary_expression" -> e.operator \in {"-", "~"} /\ Arithmetic(e.argument)
      [] e.kind = "binary_expression" ->
            e.operator \in {"+", "-", "*", "/", "%"} /\ Arithmetic(e.left) /\ Arithmetic(e.right)
      [] OTHER -> FALSE

\* C16: for e built from integer literals, parentheses, unary - and ~ and
\* binary + - * / %, with no division by zero and no overflow, the
\* instructions generated for int main(void) { return e; } leave the value of
\* e under C int arithmetic in AX at Ret.
C16_ArithmeticValue ==
    (/\ IsFunction
     /\ Arithmetic(unit.expr)
     /\ CValue(unit.expr).ok
     /\ ~CValue(unit.expr).overflow)
    => Returns(CValue(unit.expr).value)

\* return (10 / 3) * 3 + 10 % 3 returns 10
C16_Witness ==
    /\ IsFunction
    /\ unit.expr.kind = "binary_expression"
    /\ unit.expr.right = BinaryExpr("%", Lit(<< "1", "0" >>), Lit(<< "3" >>), At)
    /\ unit.expr.left.kind = "binary_expression"
    /\ unit.expr.left.operator = "*"
    /\ Returns(10)

\* the instructions lowering pushes for an expression
Alone(e) == lower_expression(FunctionContextNew(EmptyDb, 1), e).ctx.instructions

\* the positions of the instructions of b when a and b are the instruction
\* lists of the operands
Between(a, b) == (Len(a) + 2)..(Len(a) + 1 + Len(b))

\* the TAC is a, the conditional jump, b, four instructions and the label
EvaluationOrder(tac, jump, a, b) ==
    /\ SubSeq(tac, 1, Len(a)) = a
    /\ tac[Len(a) + 1].kind = jump
    /\ \A n \in 1..Len(b) : tac[Len(a) + 1 + n].kind = b[n].kind
    /\ LabelPositions(tac, tac[Len(a) + 1].target) = {Len(a) + Len(b) + 5}
    /\ \A n \in (1..Len(tac)) \ Between(a, b) :
            tac[n].kind \in Jumps =>
                LabelPositions(tac, tac[n].target) \cap Between(a, b) = {}

\* C25: in the TAC of a && b (of a || b) the instructions of a precede the
\* conditional jump and the instructions of b lie strictly between the
\* JumpIfZero (JumpIfNotZero) and the label it targets, and no jump outside
\* them leads to them: when a is 0 (is not 0) the jump passes over all of them.
C25_EvaluationOrder ==
    (/\ ReturnLowered
     /\ unit.expr.kind = "binary_expression"
     /\ unit.expr.operator \in ShortCircuit)
    => EvaluationOrder(unit.tac,
                       IF unit.expr.operator = "&&" THEN "JumpIfZero" ELSE "JumpIfNotZero",
                       Alone(unit.expr.left), Alone(unit.expr.right))

\* return (1 - 1) && -1: the subtraction, the jump, the negation; returns 0
C25_Witness ==
    /\ ReturnLowered
    /\ unit.expr.kind = "binary_expression"
    /\ unit.expr.operator = "&&"
    /\ Len(unit.tac) = 10
    /\ unit.tac[1].kind = "Binary"
    /\ unit.tac[1].op = "Sub"
    /\ unit.tac[2].kind = "JumpIfZero"
    /\ unit.tac[3].kind = "Unary"
    /\ unit.tac[7].kind = "Label"
    /\ Returns(0)

\* every jump has a label of its name, and every such label comes after it
Forward(instructions) ==
    \A n \in 1..Len(instructions) :
        instructions[n].kind \in Jumps =>
            /\ LabelPositions(instructions, instructions[n].target) # {}
            /\ \A k \in LabelPositions(instructions, instructions[n].target) : k > n

\* C27: in every lowered TAC function, and in the assembly generated from
\* it, every jump targets a Label that comes later in the list than the jump,
\* so a run from the first instruction never goes back and ends within as
\* many steps as there are instructions.
C27_JumpsForward ==
    IsFunction => Forward(unit.tac) /\ Forward(unit.asm)

\* C24: the code generated for !a leaves 1 in the 32-bit destination if the
\* value of a is zero and 0 if it is not, for every 32-bit value of a, the
\* values from 256 up and the negative ones included.
C24_LogicalNot ==
    (/\ ReturnLowered
     /\ unit.expr.kind = "unary_expression"
     /\ unit.expr.operator = "!"
     /\ CValue(unit.expr.argument).ok)
    => Returns(Bit(CValue(unit.expr.argument).value = 0))

\* C23: whenever lowering skips the statement (no value comes back for it and
\* no Return is appended), lowering has accumulated at least one diagnostic
\* and the function the statement is in is still produced.
C23_SkipsAreDiagnosed ==
    (unit.kind \in {"function", "panicked"} /\ ~ReturnLowered) =>
        IsFunction /\ Len(unit.diags) > 0

(***************************************************************************)
(* Properties of the lower query, on the runs of the driver.               *)
(***************************************************************************)
LowerKey == Key("lower", cfg.input, 0)

LowerRan == \E n \in 1..Len(trace) : trace[n] = QueryEv("lower")

\* C17: lower accumulates a diagnostic of severity Error unless the unit
\* lowers to exactly one function named main: no function gives the error
\* that the program must contain main, and every further function gives an
\* error of its own, so foo plus main, and two functions named main, are
\* rejected at the lower stage.
C17_OnlyOneMain ==
    (pc # "idle" /\ MemoHit(db, LowerKey)) =>
        \/ /\ Len(db.memo[LowerKey].value.functions) = 1
           /\ db.memo[LowerKey].value.functions[1].name = "main"
        \/ \E n \in 1..Len(Accumulated(db, LowerKey)) :
                Accumulated(db, LowerKey)[n].severity = "Error"

\* C18: lower returns a program for every parsed tree: it never panics, and
\* reports a number literal that is not an i32 and a return statement
\* without an expression as accumulated diagnostics.
C18_LowerNeverPanics ==
    LowerRan => outcome.kind # "Panic" /\ (pc # "lower" => MemoHit(db, LowerKey))

\* the function of the file that has a return statement without an expression
BareReturns(file) ==
    { n \in 1..Len(Trees[file].items) :
        /\ Trees[file].items[n].kind = "function_definition"
        /\ \E c \in 1..Len(Trees[file].items[n].body.children) :
            /\ Trees[file].items[n].body.children[c].kind = "return_statement"
            /\ Trees[file].items[n].body.children[c].child.kind = "absent" }

\* C19: lowering `return;` accumulates an unimplemented diagnostic at the
\* lower stage and appends no Return instruction, and the function the
\* statement is in is still produced.
C19_BareReturnDiagnosed ==
    (LowerRan /\ pc # "lower" /\ BareReturns(cfg.input) # {}) =>
        /\ MemoHit(db, LowerKey)
        /\ \E n \in 1..Len(Accumulated(db, LowerKey)) :
                Accumulated(db, LowerKey)[n].code = unimplemented
        /\ \A f \in BareReturns(cfg.input) :
                \E n \in 1..Len(db.memo[LowerKey].value.functions) :
                    /\ db.memo[LowerKey].value.functions[n].idx = f
                    /\ \A k \in 1..Len(db.memo[LowerKey].value.functions[n].instructions) :
                        db.memo[LowerKey].value.functions[n].instructions[k].kind # "Return"

(***************************************************************************)
(* One instruction the fix-up pass rewrites, run on the machine as Pass A  *)
(* selected it and as the pass left it.                                    *)
(***************************************************************************)
\* the largest operand value of the instructions
MaxValue == 1

Values == -1..MaxValue

Slots == {0, 4}

ComparisonOperators ==
    {"Equal", "NotEqual", "LessThan", "LessThanOrEqual", "GreaterThan", "GreaterThanOrEqual"}

\* the instructions fix_up_instructions has an arm for
Rewritten ==
    { Mov(Stack(s), Stack(d)) : s \in Slots, d \in Slots }
    \cup { [kind |-> "Idiv", src |-> Imm(v)] : v \in Values }
    \cup { [kind |-> "Comparison", op |-> op, left |-> Imm(a), right |-> Imm(b),
            dst |-> Stack(d)] : op \in ComparisonOperators, a \in Values, b \in Values,
                                d \in Slots }
    \cup { [kind |-> "Comparison", op |-> op, left |-> Stack(s), right |-> Imm(b),
            dst |-> Stack(d)] : op \in ComparisonOperators, s \in Slots, b \in Values,
                                d \in Slots }
    \cup { [kind |-> "Comparison", op |-> op, left |-> Imm(a), right |-> Stack(s),
            dst |-> Stack(d)] : op \in ComparisonOperators, a \in Values, s \in Slots,
                                d \in Slots }

\* the machine before the instruction: Idiv follows Cdq, so DX extends AX
Machine(ax, slot0, slot4) ==
    [status |-> "running", pc |-> 1,
     regs |-> [AX |-> ax, DX |-> IF ax < 0 THEN -1 ELSE 0, R10 |-> 171],
     stack |-> (0 :> slot0) @@ (4 :> slot4)]

FixUpInstruction ==
    /\ unit = NoUnit
    /\ \E instruction \in Rewritten, ax \in Values, slot0 \in Values, slot4 \in Values :
        unit' = [kind |-> "fix_up", instruction |-> instruction,
                 rewritten |-> fix_up_instruction(instruction),
                 before |-> Run(<< instruction >>, Machine(ax, slot0, slot4)),
                 after |-> Run(fix_up_instruction(instruction), Machine(ax, slot0, slot4))]
    /\ UNCHANGED << pc, cfg, db, temp, trace, outcome, exit, hook, sessions, ncalls, last >>

NextFixUp == FixUpInstruction

SpecFixUp == Init /\ [][NextFixUp]_vars

\* C20: for every instruction the fix-up pass rewrites, every comparison
\* operator and all operand values, running the rewritten sequence leaves
\* every stack slot, AX and DX as running the original instruction would.
C20_FixUpPreservesSemantics ==
    unit.kind = "fix_up" =>
        /\ unit.after.stack = unit.before.stack
        /\ unit.after.regs.AX = unit.before.regs.AX
        /\ unit.after.regs.DX = unit.before.regs.DX
        /\ (unit.after.status = "divide error") <=> (unit.before.status = "divide error")

(***************************************************************************)
(* to_assembly and fix_up_instructions on the instructions of a TAC        *)
(* function, drawn from every instruction kind and operator of tacky.      *)
(***************************************************************************)
\* the largest index of the Anonymous variables of the instructions
MaxVar == 1

TacSources == { Constant(1) } \cup { Var(Anonymous(n)) : n \in 0..MaxVar }
TacDestinations == { Var(Anonymous(n)) : n \in 1..(MaxVar + 1) }

UnaryOperators == {"Negate", "Complement", "Not"}
BinaryOperators ==
    {"Add", "Sub", "Mul", "Div", "Mod", "And", "Or", "LeftShift", "RightShift"}

TacInstructions ==
    { [kind |-> "Return", val |-> v] : v \in TacSources }
    \cup { [kind |-> "Unary", op |-> op, src |-> a, dst |-> d] :
            op \in UnaryOperators, a \in TacSources, d \in TacDestinations }
    \cup { [kind |-> "Binary", op |-> op, left_src |-> a, right_src |-> b, dst |-> d] :
            op \in BinaryOperators, a \in TacSources, b \in TacSources,
            d \in TacDestinations }
    \cup { [kind |-> "Comparison", op |-> op, left_src |-> a, right_src |-> b, dst |-> d] :
            op \in ComparisonOperators, a \in TacSources, b \in TacSources,
            d \in TacDestinations }
    \cup { [kind |-> "Copy", src |-> a, dst |-> d] :
            a \in TacSources, d \in TacDestinations }
    \cup { [kind |-> "Jump", target |-> "L0"], [kind |-> "Label", name |-> "L0"] }
    \cup { [kind |-> k, condition |-> a, target |-> "L0"] :
            k \in {"JumpIfZero", "JumpIfNotZero"}, a \in TacSources }

\* the instructions that follow the first one
Followers ==
    { << >> } \cup
    { << i >> : i \in { t \in TacInstructions :
                          t.kind \in {"Return", "Copy", "Label", "JumpIfZero"} } }

\* codegen's lower_function: selected is what to_assembly returned
Assembled(tac, selected) ==
    [kind |-> "assembly", tac |-> tac, selected |-> selected.instructions,
     asm |-> fix_up_instructions(selected).instructions]

\* codegen's lower_function on a function with these instructions
ToAssembly ==
    /\ unit = NoUnit
    /\ \E first \in TacInstructions, rest \in Followers :
        unit' = Assembled(<< first >> \o rest,
                          to_assembly(TacFunction("main",
                                                  [instructions |-> << first >> \o rest])))
    /\ UNCHANGED << pc, cfg, db, temp, trace, outcome, exit, hook, sessions, ncalls, last >>

NextSelect == ToAssembly

SpecSelect == Init /\ [][NextSelect]_vars

(***************************************************************************)
(* Properties of instruction selection.                                    *)
(***************************************************************************)
IsAssembly == unit.kind = "assembly"

\* the operand of a TAC value: a constant is an immediate, a variable the
\* slot of its rank among the variables of the function
OperandOf(vals, v) ==
    IF v.kind = "Constant" THEN Imm(v.value)
    ELSE Stack(SlotOf(vals, CHOOSE j \in FirstSeen(vals) : vals[j] = v))

\* the row of the selection table for a TAC instruction
Row(vals, i) ==
    CASE i.kind = "Return" ->
            << Mov(OperandOf(vals, i.val), Register("AX")), [kind |-> "Ret"] >>
      [] i.kind = "Unary" ->
            << Mov(OperandOf(vals, i.src), OperandOf(vals, i.dst)),
               [kind |-> "Unary",
                op |-> CASE i.op = "Negate" -> "Neg"
                         [] i.op = "Complement" -> "Complement"
                         [] i.op = "Not" -> "Not",
                operand |-> OperandOf(vals, i.dst)] >>
      [] i.kind = "Binary" /\ i.op \notin {"Div", "Mod"} ->
            << Mov(OperandOf(vals, i.left_src), Register("R10")),
               [kind |-> "Binary", op |-> i.op, src |-> OperandOf(vals, i.right_src),
                dst |-> Register("R10")],
               Mov(Register("R10"), OperandOf(vals, i.dst)) >>
      [] i.kind = "Binary" /\ i.op \in {"Div", "Mod"} ->
            << Mov(OperandOf(vals, i.left_src), Register("AX")), [kind |-> "Cdq"],
               [kind |-> "Idiv", src |-> OperandOf(vals, i.right_src)],
               Mov(Register(IF i.op = "Div" THEN "AX" ELSE "DX"), OperandOf(vals, i.dst)) >>
      [] i.kind = "Comparison" ->
            << [kind |-> "Comparison", op |-> i.op, left |-> OperandOf(vals, i.left_src),
                right |-> OperandOf(vals, i.right_src), dst |-> OperandOf(vals, i.dst)] >>
      [] i.kind = "Copy" -> << Mov(OperandOf(vals, i.src), OperandOf(vals, i.dst)) >>
      [] i.kind \in {"Jump", "Label"} -> << i >>
      [] i.kind \in {"JumpIfZero", "JumpIfNotZero"} ->
            << [kind |-> i.kind, condition |-> OperandOf(vals, i.condition),
                target |-> i.target] >>

RECURSIVE Rows(_, _, _)
Rows(vals, tac, n) ==
    IF n > Len(tac) THEN << >> ELSE Row(vals, tac[n]) \o Rows(vals, tac, n + 1)

\* the instructions after the AllocateStack at the head, if there is one
Body(instructions) ==
    IF Len(instructions) > 0 /\ instructions[1].kind = "AllocateStack"
    THEN Tail(instructions) ELSE instructions

\* C21: to_assembly translates the TAC instructions, in order, each to the
\* sequence of the selection table (Return to Mov, Ret; Unary to Mov, Unary;
\* Binary to Mov, Binary, Mov through R10; Div and Mod to Mov, Cdq, Idiv and a
\* Mov from AX or DX; Copy to Mov; jumps and labels unchanged), constants
\* becoming Imm and variables Stack operands.
C21_SelectionTable ==
    IsAssembly => Body(unit.selected) = Rows(ValsOf(unit.tac, 1), unit.tac, 1)

\* a Mod of two variables into a third one, followed by a Return of the second
C21_Witness ==
    /\ IsAssembly
    /\ Len(unit.tac) = 2
    /\ unit.tac[1].kind = "Binary"
    /\ unit.tac[1].op = "Mod"
    /\ unit.tac[1].left_src = Var(Anonymous(1))
    /\ unit.tac[1].right_src = Var(Anonymous(0))
    /\ unit.tac[1].dst = Var(Anonymous(2))
    /\ unit.tac[2] = [kind |-> "Return", val |-> Var(Anonymous(0))]
    /\ unit.selected[5] = Mov(Register("DX"), Stack(8))
    /\ unit.selected[6] = Mov(Stack(4), Register("AX"))

\* the positions of the AllocateStack instructions
Allocations(instructions) ==
    { k \in 1..Len(instructions) : instructions[k].kind = "AllocateStack" }

\* the number of distinct variables of a TAC function
Variables(tac) == Cardinality(FirstSeen(ValsOf(tac, 1)))

\* C22: in the assembly function returned for a TAC function with n >= 1
\* distinct variables the first instruction is AllocateStack(4n) and no other
\* instruction is an AllocateStack; for a function without variables there
\* is no AllocateStack.
C22_AllocateStack ==
    IsAssembly =>
        IF Variables(unit.tac) >= 1
        THEN /\ Allocations(unit.asm) = {1}
             /\ unit.asm[1].size = 4 * Variables(unit.tac)
        ELSE Allocations(unit.asm) = {}

\* three variables and an instruction the fix-up pass rewrote
C22_Witness ==
    /\ IsAssembly
    /\ Variables(unit.tac) = 3
    /\ Len(unit.asm) > Len(unit.selected)
    /\ unit.asm[1] = [kind |-> "AllocateStack", size |-> 12]

(***************************************************************************)
(* The syntax crate: the AST of ast.rs, whose nodes are built with the     *)
(* placeholder id, and assign_node_ids, the MutVisitor that numbers them.  *)
(* A visit returns the generator and the node as the visit left them.      *)
(***************************************************************************)
NodeId(n) == n
placeholder == NodeId(0)
is_valid(id) == id # 0

Ident(name) == [node |-> "Ident", node_id |-> placeholder, name |-> name]
TypeIdent(ident) == [node |-> "Type", ident |-> ident]
Argument(name, ty) == [node |-> "Argument", node_id |-> placeholder, name |-> name, ty |-> ty]
FnDecl(name, return_value, args) ==
    [node |-> "FnDecl", node_id |-> placeholder, return_value |-> return_value,
     name |-> name, args |-> args]
Literal(kind) == [node |-> "Literal", node_id |-> placeholder, kind |-> kind]
BinaryOp(left, right, kind) ==
    [node |-> "BinaryOp", node_id |-> placeholder, left |-> left, right |-> right,
     kind |-> kind]
ReturnNode(value) == [node |-> "Return", node_id |-> placeholder, value |-> value]
Function(signature, body) ==
    [node |-> "Function", node_id |-> placeholder, signature |-> signature, body |-> body]
File(items) == [node |-> "File", node_id |-> placeholder, items |-> items]

\* Option::None
None == [node |-> "None"]

NodeIdGeneratorNew == [last_id |-> 0]

next_id(gen) ==
    [gen |-> [gen EXCEPT !.last_id = @ + 1], out |-> NodeId(gen.last_id + 1)]

Visited(gen, node) == [gen |-> gen, node |-> node]

\* the node with the next id, and the generator after it
Numbered(node, n) == Visited(n.gen, [node EXCEPT !.node_id = n.out])

visit_ident_mut(gen, ident) == Numbered(ident, next_id(gen))

visit_literal_mut(gen, lit) == Numbered(lit, next_id(gen))

visit_type_mut(gen, ty) ==
    LET id == visit_ident_mut(gen, ty.ident) IN
    Visited(id.gen, [ty EXCEPT !.ident = id.node])

\* visitor::visit_expression_mut: a BinaryOp is walked, its own id is not set
RECURSIVE visit_expression_mut(_, _)
visit_expression_mut(gen, expr) ==
    IF expr.node = "Literal" THEN visit_literal_mut(gen, expr)
    ELSE LET left == visit_expression_mut(gen, expr.left)
             right == visit_expression_mut(left.gen, expr.right)
         IN Visited(right.gen, [expr EXCEPT !.left = left.node, !.right = right.node])

\* the generator's visit_return_mut, then visitor::visit_return_mut
ReturnValueVisited(ret, value) == Visited(value.gen, [ret EXCEPT !.value = value.node])

ReturnVisited(r) ==
    IF r.node.value = None THEN r
    ELSE ReturnValueVisited(r.node, visit_expression_mut(r.gen, r.node.value))

visit_return_mut(gen, ret) == ReturnVisited(Numbered(ret, next_id(gen)))

visit_statement_mut(gen, stmt) == visit_return_mut(gen, stmt)

\* the generator's visit_argument_mut, then visitor::visit_argument_mut
ArgumentTypeVisited(arg, name, ty) ==
    Visited(ty.gen, [arg EXCEPT !.name = name, !.ty = ty.node])

ArgumentNameVisited(arg, name) ==
    ArgumentTypeVisited(arg, name.node, visit_type_mut(name.gen, arg.ty))

ArgumentVisited(a) ==
    IF a.node.name = None THEN ArgumentNameVisited(a.node, Visited(a.gen, None))
    ELSE ArgumentNameVisited(a.node, visit_ident_mut(a.gen, a.node.name))

visit_argument_mut(gen, arg) == ArgumentVisited(Numbered(arg, next_id(gen)))

\* for arg in &mut decl.args
RECURSIVE visit_arguments(_, _, _)
visit_arguments(gen, args, i) ==
    IF i > Len(args) THEN Visited(gen, args)
    ELSE LET a == visit_argument_mut(gen, args[i]) IN
         visit_arguments(a.gen, [args EXCEPT ![i] = a.node], i + 1)

\* the generator's visit_fn_decl_mut, then visitor::visit_fn_decl_mut
DeclArgumentsVisited(decl, name, ty, args) ==
    Visited(args.gen, [decl EXCEPT !.name = name, !.return_value = ty, !.args = args.node])

DeclTypeVisited(decl, name, ty) ==
    DeclArgumentsVisited(decl, name, ty.node, visit_arguments(ty.gen, decl.args, 1))

DeclNameVisited(decl, name) ==
    DeclTypeVisited(decl, name.node, visit_type_mut(name.gen, decl.return_value))

visit_fn_decl_mut(gen, decl) ==
    LET d == Numbered(decl, next_id(gen)) IN
    DeclNameVisited(d.node, visit_ident_mut(d.gen, d.node.name))

\* for stmt in &mut func.body
RECURSIVE visit_statements(_, _, _)
visit_statements(gen, body, i) ==
    IF i > Len(body) THEN Visited(gen, body)
    ELSE LET st == visit_statement_mut(gen, body[i]) IN
         visit_statements(st.gen, [body EXCEPT ![i] = st.node], i + 1)

\* the generator's visit_function_mut, then visitor::visit_function_mut
FunctionBodyVisited(func, signature, body) ==
    Visited(body.gen, [func EXCEPT !.signature = signature, !.body = body.node])

FunctionSignatureVisited(func, signature) ==
    FunctionBodyVisited(func, signature.node, visit_statements(signature.gen, func.body, 1))

visit_function_mut(gen, func) ==
    LET f == Numbered(func, next_id(gen)) IN
    FunctionSignatureVisited(f.node, visit_fn_decl_mut(f.gen, f.node.signature))

visit_item_mut(gen, item) == visit_function_mut(gen, item)

\* for item in &mut file.items
RECURSIVE visit_items(_, _, _)
visit_items(gen, items, i) ==
    IF i > Len(items) THEN Visited(gen, items)
    ELSE LET it == visit_item_mut(gen, items[i]) IN
         visit_items(it.gen, [items EXCEPT ![i] = it.node], i + 1)

FileItemsVisited(file, items) == Visited(items.gen, [file EXCEPT !.items = items.node])

visit_file_mut(gen, file) ==
    LET f == Numbered(file, next_id(gen)) IN
    FileItemsVisited(f.node, visit_items(f.gen, f.node.items, 1))

assign_node_ids(file) == visit_file_mut(NodeIdGeneratorNew, file).node

\* the largest depth of the expressions of the files
MaxDepth == 2

RECURSIVE ExpressionsOfDepth(_)
ExpressionsOfDepth(d) ==
    IF d = 0 THEN { Literal("Integer") }
    ELSE ExpressionsOfDepth(d - 1)
         \cup { BinaryOp(l, r, k) : l \in ExpressionsOfDepth(d - 1),
                                    r \in ExpressionsOfDepth(d - 1),
                                    k \in {"Add", "Subtract"} }

IntType == TypeIdent(Ident("int"))

\* no argument, an unnamed one, a named one
ArgumentLists ==
    { << >>, << Argument(None, IntType) >>, << Argument(Ident("x"), IntType) >> }

\* an empty body, `return;`, `return e;`
Bodies ==
    { << >>, << ReturnNode(None) >> }
    \cup { << ReturnNode(e) >> : e \in ExpressionsOfDepth(MaxDepth) }

Functions ==
    { Function(FnDecl(Ident("main"), IntType, args), body) :
        args \in ArgumentLists, body \in Bodies }

\* int f() { return 42; }
Other == Function(FnDecl(Ident("f"), IntType, << >>), << ReturnNode(Literal("Integer")) >>)

Files ==
    { File(<< >>) }
    \cup { File(<< f >>) : f \in Functions }
    \cup { File(<< Other, f >>) : f \in Functions }

\* parse's fix_up on the file the parser built
AssignNodeIds ==
    /\ unit = NoUnit
    /\ \E file \in Files : unit' = [kind |-> "ast", file |-> assign_node_ids(file)]
    /\ UNCHANGED << pc, cfg, db, temp, trace, outcome, exit, hook, sessions, ncalls, last >>

NextNodeIds == AssignNodeIds

SpecNodeIds == Init /\ [][NextNodeIds]_vars

(***************************************************************************)
(* Properties of the node ids.                                             *)
(***************************************************************************)
RECURSIVE ExpressionIds(_)
ExpressionIds(e) ==
    IF e.node = "Literal" THEN {e.node_id}
    ELSE {e.node_id} \cup ExpressionIds(e.left) \cup ExpressionIds(e.right)

ReturnIds(r) == {r.node_id} \cup (IF r.value = None THEN {} ELSE ExpressionIds(r.value))

ArgumentIds(a) ==
    {a.node_id, a.ty.ident.node_id} \cup (IF a.name = None THEN {} ELSE {a.name.node_id})

FunctionIds(f) ==
    {f.node_id, f.signature.node_id, f.signature.name.node_id,
     f.signature.return_value.ident.node_id}
    \cup UNION { ArgumentIds(f.signature.args[i]) : i \in 1..Len(f.signature.args) }
    \cup UNION { ReturnIds(f.body[i]) : i \in 1..Len(f.body) }

\* the ids of the nodes of a file
FileIds(file) ==
    {file.node_id} \cup UNION { FunctionIds(file.items[i]) : i \in 1..Len(file.items) }

\* C26: after assign_node_ids every node of the file (the file, functions,
\* declarations, identifiers, arguments, return statements and every
\* expression, BinaryOp and Literal) has an id other than the placeholder.
C26_AllNodesGetAnId ==
    unit.kind = "ast" => \A id \in FileIds(unit.file) : is_valid(id)

(***************************************************************************)
(* Properties of the functions the driver generates.                       *)
(***************************************************************************)
AsmKey == Key("generate_assembly", cfg.input, 0)

\* every run of the instructions leaves through a Ret
ReachesRet(instructions) == \A m \in Runs(instructions) : m.status = "returned"

\* C28: when parse and lower accumulate no diagnostic (an empty body of main
\* included), every execution path of each generated assembly function
\* reaches a Ret; control never runs past the last instruction.
C28_EveryPathReturns ==
    (MemoHit(db, AsmKey) /\ Accumulated(db, LowerKey) = <<>>) =>
        \A n \in 1..Len(db.memo[AsmKey].value.functions) :
            ReachesRet(db.memo[AsmKey].value.functions[n].instructions)

(***************************************************************************)
(* Properties of the scratch registers.                                    *)
(***************************************************************************)
\* the registers an instruction writes
Written(i) ==
    CASE i.kind \in {"Mov", "Binary"} /\ i.dst.kind = "Register" -> {i.dst.reg}
      [] i.kind = "Unary" /\ i.op = "Not" ->
            {"AX"} \cup (IF i.operand.kind = "Register" THEN {i.operand.reg} ELSE {})
      [] i.kind = "Unary" /\ i.op # "Not" /\ i.operand.kind = "Register" -> {i.operand.reg}
      [] i.kind = "Comparison" ->
            {"AX"} \cup (IF i.dst.kind = "Register" THEN {i.dst.reg} ELSE {})
      [] i.kind = "Idiv" -> {"AX", "DX"}
      [] i.kind = "Cdq" -> {"DX"}
      [] OTHER -> {}

\* where the fix-up pass puts what it makes of instructions[i]
RECURSIVE FixedPosition(_, _)
FixedPosition(instructions, i) ==
    IF i = 1 THEN 1
    ELSE FixedPosition(instructions, i - 1) + Len(fix_up_instruction(instructions[i - 1]))

\* the positions of the fixed-up list that hold what a rewriting arm of the
\* pass pushed in front of the instruction it kept
Inserted(instructions) ==
    { FixedPosition(instructions, i) : i \in { j \in 1..Len(instructions) :
                                    Len(fix_up_instruction(instructions[j])) = 2 } }

\* Mov l -> R10; Binary op r, R10; Mov R10 -> d starts at p
IsBinaryTriple(instructions, p) ==
    /\ p + 2 <= Len(instructions)
    /\ instructions[p].kind = "Mov" /\ instructions[p].dst = Register("R10")
    /\ instructions[p + 1].kind = "Binary" /\ instructions[p + 1].dst = Register("R10")
    /\ instructions[p + 2].kind = "Mov" /\ instructions[p + 2].src = Register("R10")

\* Mov l -> AX; Cdq; Idiv r; Mov AX or DX -> d starts at p
IsDivision(instructions, p) ==
    /\ p + 3 <= Len(instructions)
    /\ instructions[p].kind = "Mov" /\ instructions[p].dst = Register("AX")
    /\ instructions[p + 1].kind = "Cdq"
    /\ instructions[p + 2].kind = "Idiv"
    /\ instructions[p + 3].kind = "Mov"
    /\ instructions[p + 3].src \in {Register("AX"), Register("DX")}

\* the inserted instructions of the fixed-up list fixed that lie after what
\* the pass made of instructions[p] and before the end of what it made of
\* instructions[q], and write a register of regs
Clobbers(instructions, fixed, p, q, regs) ==
    { k \in Inserted(instructions) :
        /\ FixedPosition(instructions, p) < k
        /\ k < FixedPosition(instructions, q + 1)
        /\ Written(fixed[k]) \cap regs # {} }

\* C29: in the list the fix-up pass returns, no instruction the pass inserted
\* writes R10 between the Mov l -> R10 and the Mov R10 -> d of a binary
\* operation, and none writes AX or DX between the Mov l -> AX of a division
\* and the Mov that reads the quotient or the remainder.
C29_ScratchRegisters ==
    IsAssembly =>
        \A p \in 1..Len(unit.selected) :
            /\ IsBinaryTriple(unit.selected, p) =>
                    Clobbers(unit.selected, unit.asm, p, p + 2, {"R10"}) = {}
            /\ IsDivision(unit.selected, p) =>
                    Clobbers(unit.selected, unit.asm, p, p + 3, {"AX", "DX"}) = {}

\* a division by a constant, whose Idiv the pass rewrites through R10
C29_Witness ==
    /\ IsAssembly
    /\ \E p \in 1..Len(unit.selected) :
        /\ IsDivision(unit.selected, p)
        /\ unit.selected[p + 2].src.kind = "Imm"
        /\ unit.asm[FixedPosition(unit.selected, p + 2)] = Mov(Imm(1), Register("R10"))
        /\ FixedPosition(unit.selected, p + 2) \in Inserted(unit.selected)
        /\ Len(unit.asm) > Len(unit.selected)

(***************************************************************************)
(* The mcc crate's hir: HirId and HirIdGenerator, next_id called on one   *)
(* generator again and again.                                              *)
(***************************************************************************)
HirId(n) == n
HirIdPlaceholder == HirId(0)

\* HirId::is_valid: `self.0 == 0`
HirIdIsValid(id) == id = 0

HirIdGeneratorNew == [last_id |-> 0]

\* HirIdGenerator::next_id: `self.last_id += 1; HirId::new(self.last_id)`
HirIdGeneratorNextId(gen) ==
    [gen |-> [gen EXCEPT !.last_id = @ + 1], out |-> HirId(gen.last_id + 1)]

\* the number of calls of next_id on one generator
MaxIds == 100

\* id is what the last call of next_id returned
Generated(r) == [kind |-> "hir", gen |-> r.gen, called |-> TRUE, id |-> r.out]

NewHirIdGenerator ==
    /\ unit = NoUnit
    /\ unit' = [kind |-> "hir", gen |-> HirIdGeneratorNew, called |-> FALSE,
                id |-> HirIdPlaceholder]
    /\ UNCHANGED << pc, cfg, db, temp, trace, outcome, exit, hook, sessions, ncalls, last >>

NextHirId ==
    /\ unit.kind = "hir"
    /\ unit.gen.last_id < MaxIds
    /\ unit' = Generated(HirIdGeneratorNextId(unit.gen))
    /\ UNCHANGED << pc, cfg, db, temp, trace, outcome, exit, hook, sessions, ncalls, last >>

NextHirIds == NewHirIdGenerator \/ NextHirId

SpecHirIds == Init /\ [][NextHirIds]_vars

\* C30: every HirId next_id returns differs from the placeholder and is
\* valid, and the placeholder is not valid.
C30_HirIdsAreValid ==
    (unit.kind = "hir" /\ unit.called) =>
        /\ unit.id # HirIdPlaceholder
        /\ HirIdIsValid(unit.id)
        /\ ~HirIdIsValid(HirIdPlaceholder)
====
